---------------------------- MODULE Spec2Model ----------------------------
(***************************************************************************)
(* Model of omislisi-accounting: reporting, counterparty grouping,        *)
(* category taxonomy, parsers, file discovery, configuration and the      *)
(* dashboard renderer.                                                     *)
(*                                                                         *)
(* Conventions                                                             *)
(*  - text is a TLA+ string; Len, SubSeq and \o act on strings as Python's *)
(*    len, slicing and + do;                                               *)
(*  - money is an integer number of cents (100.50 is 10050);               *)
(*  - a Python dict is a function whose DOMAIN is the set of keys, so a    *)
(*    missing key is a missing domain element;                             *)
(*  - non-ASCII letters of the source are written with one-character      *)
(*    ASCII stand-ins (see Diacritic).                                     *)
(***************************************************************************)
EXTENDS Integers, Sequences, FiniteSets, TLC

VARIABLES
    transactions,      \* reporter: the transaction list handed to the reporting engine
    summary,           \* reporter: result of generate_summary, or NoVal
    breakdown,         \* reporter: result of generate_category_breakdown, or NoVal
    environ,           \* config: os.environ (a dict of the variables that are set)
    config_file,       \* config: <project root>/config.yaml, [exists, content]
    home,              \* config: Path.home()
    REPORTS_PATH,      \* config: the module constant set at import, or NoPath
    resolved,          \* config: last value returned by get_reports_path(), or NoPath
    out_dir,           \* renderer: names of the files at the top level of output_dir
    static_dir,        \* renderer: names of the files in output_dir/static
    render_pc,         \* renderer: position of the render_dashboard call
    unlinked,          \* renderer: the files the current call has unlinked
    render_count,      \* renderer: number of calls that returned normally
    statement,         \* parser: the content of the file handed to a parser
    parsed,            \* parser: what the parser gave: [raised, transactions], or NoVal
    file_paths,        \* factory: the list handed to parse_all_files
    all_transactions,  \* factory: what parse_all_files gave: [raised, transactions], or NoVal
    cp_transactions,   \* counterparty: the transactions handed to get_counterparty_breakdowns
    cp_limit,          \* counterparty: its limit argument
    cp_breakdowns,     \* counterparty: what it returned: [rows], or NoVal
    cat_tx,            \* categorizer: the arguments handed to categorize_transaction
    cat_category,      \* categorizer: what it returned: [category], or NoVal
    reports_tree,      \* pipeline: the entries below the reports directory, as the file system lists them
    year_option,       \* pipeline: the --year option of analyze, or None
    analysis,          \* pipeline: what analyze did: [outcome, ...], or NoVal
    yc_transactions,   \* dashboard: the transaction list handed to get_year_comparison_data
    yc_year,           \* dashboard: its current_year argument
    year_comparison,   \* dashboard: what it returned: [raised, ...], or NoVal
    nm_name,           \* normalizer: the raw name handed to normalize_counterparty_name
    nm_normalized,     \* normalizer: what it returned: [value], or NoVal
    report_tree,       \* report: the entries below the reports directory handed to report
    report_options,    \* report: the options of the report command
    report_output,     \* report: what report did: [raised, echoed], or NoVal
    command_name,      \* command: the command that runs: trends or category, or None
    command_tree,      \* command: the entries below the reports directory handed to the command
    command_options,   \* command: the options of the command
    command_output,    \* command: what the command did: [raised, echoed], or NoVal
    cr_files,          \* concurrent: names of the html files in the shared output_dir
    cr_static,         \* concurrent: output_dir/static: [exists, files]
    cr_pc,             \* concurrent: position of each of the two render_dashboard calls
    cr_globbed,        \* concurrent: the listed html files each call has still to unlink
    cr_removed,        \* concurrent: what each call has removed: html files and static
    cr_raised,         \* concurrent: what each call found missing when it raised, or None
    cr_written,        \* concurrent: the call that wrote each page last
    fab_secure,        \* fabric: env.secure of the environment the tasks run in
    fab_task,          \* fabric: name of the task that ran last, or None
    fab_before,        \* fabric: the htpasswd source file before the last task
    fab_run,           \* fabric: the last run: status, log, files, dashboard, site
    fab_count,         \* fabric: number of the tasks that have run
    zr_temp_dirs,      \* registry: _temp_dirs, the list of the registered directories
    zr_made,           \* registry: what tempfile.mkdtemp created: [directory, cleanup]
    zr_disk,           \* registry: the directories that exist
    zr_last,           \* registry: the last call of extract_zip, or NoVal
    zr_calls,          \* registry: number of the calls of extract_zip
    zr_deleted,        \* registry: the directories the exit-time cleanup removed
    zr_pc              \* registry: running, or exited after the exit-time cleanup

reporterVars == <<transactions, summary, breakdown>>
configVars == <<environ, config_file, home, REPORTS_PATH, resolved>>
rendererVars == <<out_dir, static_dir, render_pc, unlinked, render_count>>
parserVars == <<statement, parsed>>
factoryVars == <<file_paths, all_transactions>>
counterpartyVars == <<cp_transactions, cp_limit, cp_breakdowns>>
categorizerVars == <<cat_tx, cat_category>>
pipelineVars == <<reports_tree, year_option, analysis>>
dashboardVars == <<yc_transactions, yc_year, year_comparison>>
normalizerVars == <<nm_name, nm_normalized>>
reportVars == <<report_tree, report_options, report_output>>
commandVars == <<command_name, command_tree, command_options, command_output>>
concurrentVars == <<cr_files, cr_static, cr_pc, cr_globbed, cr_removed,
                    cr_raised, cr_written>>
fabricVars == <<fab_secure, fab_task, fab_before, fab_run, fab_count>>
registryVars == <<zr_temp_dirs, zr_made, zr_disk, zr_last, zr_calls,
                  zr_deleted, zr_pc>>

vars == <<reporterVars, configVars, rendererVars, parserVars, factoryVars,
          counterpartyVars, categorizerVars, pipelineVars, dashboardVars,
          normalizerVars, reportVars, commandVars, concurrentVars,
          fabricVars, registryVars>>

\* what an action of one component leaves alone: every other component
notReporter == <<configVars, rendererVars, parserVars, factoryVars,
                 counterpartyVars, categorizerVars, pipelineVars,
                 dashboardVars, normalizerVars, reportVars, commandVars,
                 concurrentVars, fabricVars, registryVars>>
notConfig == <<reporterVars, rendererVars, parserVars, factoryVars,
               counterpartyVars, categorizerVars, pipelineVars,
               dashboardVars, normalizerVars, reportVars, commandVars,
               concurrentVars, fabricVars, registryVars>>
notRenderer == <<reporterVars, configVars, parserVars, factoryVars,
                 counterpartyVars, categorizerVars, pipelineVars,
                 dashboardVars, normalizerVars, reportVars, commandVars,
                 concurrentVars, fabricVars, registryVars>>
notParser == <<reporterVars, configVars, rendererVars, factoryVars,
               counterpartyVars, categorizerVars, pipelineVars,
               dashboardVars, normalizerVars, reportVars, commandVars,
               concurrentVars, fabricVars, registryVars>>
notFactory == <<reporterVars, configVars, rendererVars, parserVars,
                counterpartyVars, categorizerVars, pipelineVars,
                dashboardVars, normalizerVars, reportVars, commandVars,
                concurrentVars, fabricVars, registryVars>>
notCounterparty == <<reporterVars, configVars, rendererVars, parserVars,
                     factoryVars, categorizerVars, pipelineVars,
                     dashboardVars, normalizerVars, reportVars, commandVars,
                     concurrentVars, fabricVars, registryVars>>
notCategorizer == <<reporterVars, configVars, rendererVars, parserVars,
                    factoryVars, counterpartyVars, pipelineVars,
                    dashboardVars, normalizerVars, reportVars, commandVars,
                    concurrentVars, fabricVars, registryVars>>
notPipeline == <<reporterVars, configVars, rendererVars, parserVars,
                 factoryVars, counterpartyVars, categorizerVars,
                 dashboardVars, normalizerVars, reportVars, commandVars,
                 concurrentVars, fabricVars, registryVars>>
notDashboard == <<reporterVars, configVars, rendererVars, parserVars,
                  factoryVars, counterpartyVars, categorizerVars,
                  pipelineVars, normalizerVars, reportVars, commandVars,
                  concurrentVars, fabricVars, registryVars>>
notNormalizer == <<reporterVars, configVars, rendererVars, parserVars,
                   factoryVars, counterpartyVars, categorizerVars,
                   pipelineVars, dashboardVars, reportVars, commandVars,
                   concurrentVars, fabricVars, registryVars>>
notReport == <<reporterVars, configVars, rendererVars, parserVars,
               factoryVars, counterpartyVars, categorizerVars, pipelineVars,
               dashboardVars, normalizerVars, commandVars, concurrentVars,
               fabricVars, registryVars>>
notCommand == <<reporterVars, configVars, rendererVars, parserVars,
                factoryVars, counterpartyVars, categorizerVars, pipelineVars,
                dashboardVars, normalizerVars, reportVars, concurrentVars,
                fabricVars, registryVars>>
notConcurrent == <<reporterVars, configVars, rendererVars, parserVars,
                   factoryVars, counterpartyVars, categorizerVars,
                   pipelineVars, dashboardVars, normalizerVars, reportVars,
                   commandVars, fabricVars, registryVars>>
notFabric == <<reporterVars, configVars, rendererVars, parserVars,
               factoryVars, counterpartyVars, categorizerVars, pipelineVars,
               dashboardVars, normalizerVars, reportVars, commandVars,
               concurrentVars, registryVars>>
notRegistry == <<reporterVars, configVars, rendererVars, parserVars,
                 factoryVars, counterpartyVars, categorizerVars,
                 pipelineVars, dashboardVars, normalizerVars, reportVars,
                 commandVars, concurrentVars, fabricVars>>

\* a result that has not been computed yet
NoVal == [pending |-> TRUE]

(***************************************************************************)
(* Text helpers                                                            *)
(***************************************************************************)
CharAt(s, i) == SubSeq(s, i, i)

\* Python: sub in s
Contains(s, sub) ==
    \E i \in 0..(Len(s) - Len(sub)) : SubSeq(s, i + 1, i + Len(sub)) = sub

\* Python: s.startswith(p)
StartsWith(s, p) == Len(p) <= Len(s) /\ SubSeq(s, 1, Len(p)) = p

\* Python: s.endswith(suffix)
EndsWith(s, suffix) ==
    Len(suffix) <= Len(s) /\ SubSeq(s, Len(s) - Len(suffix) + 1, Len(s)) = suffix

\* Python: s.find(c) + 1 for a one-character c (0 when absent)
FindChar(s, c) ==
    IF \E i \in 1..Len(s) : CharAt(s, i) = c
    THEN CHOOSE i \in 1..Len(s) :
            CharAt(s, i) = c /\ \A j \in 1..(i - 1) : CharAt(s, j) # c
    ELSE 0

Abs(n) == IF n < 0 THEN -n ELSE n

RECURSIVE SumAmounts(_)
SumAmounts(txs) ==
    IF txs = <<>> THEN 0 ELSE Head(txs).amount + SumAmounts(Tail(txs))

(***************************************************************************)
(* Reporting engine (analysis/reporter.py)                                 *)
(***************************************************************************)
generate_summary(txs) ==
    IF txs = <<>>
    THEN [total_income |-> 0, total_expenses |-> 0, net |-> 0,
          transaction_count |-> 0]
    ELSE LET income_df  == SelectSeq(txs, LAMBDA t : t.type = "income")
             expense_df == SelectSeq(txs, LAMBDA t : t.type = "expense")
             income     == SumAmounts(income_df)
             expenses   == Abs(SumAmounts(expense_df))
         IN [total_income |-> income,
             total_expenses |-> expenses,
             net |-> income - expenses,
             transaction_count |-> Len(txs),
             income_count |-> Len(income_df),
             expense_count |-> Len(expense_df)]

\* df["category"].unique(): distinct categories in order of first appearance
RECURSIVE UniqueCategories(_, _)
UniqueCategories(txs, seen) ==
    IF txs = <<>> THEN <<>>
    ELSE IF Head(txs).category \in seen
         THEN UniqueCategories(Tail(txs), seen)
         ELSE <<Head(txs).category>>
                \o UniqueCategories(Tail(txs), seen \cup {Head(txs).category})

\* one iteration of the loop of generate_category_breakdown
BreakdownStep(bd, txs, category) ==
    LET category_df == SelectSeq(txs, LAMBDA t : t.category = category)
        category_total == SumAmounts(category_df)
        colon == FindChar(category, ":")
    IN IF colon > 0
       THEN LET base_category == SubSeq(category, 1, colon - 1)
                tag == SubSeq(category, colon + 1, Len(category))
                bd1 == IF base_category \in DOMAIN bd THEN bd
                       ELSE (base_category :>
                               [total |-> 0, count |-> 0, tags |-> <<>>]) @@ bd
                old == bd1[base_category]
                oldTags == IF "tags" \in DOMAIN old THEN old.tags ELSE <<>>
                new == [total |-> old.total + category_total,
                        count |-> old.count + Len(category_df),
                        tags  |-> (tag :> [total |-> category_total,
                                           count |-> Len(category_df)])
                                  @@ oldTags]
            IN (base_category :> new) @@ bd1
       ELSE (category :> [total |-> category_total,
                          count |-> Len(category_df)]) @@ bd

RECURSIVE BreakdownLoop(_, _, _)
BreakdownLoop(bd, txs, cats) ==
    IF cats = <<>> THEN bd
    ELSE BreakdownLoop(BreakdownStep(bd, txs, Head(cats)), txs, Tail(cats))

generate_category_breakdown(txs) ==
    IF txs = <<>> THEN <<>>
    ELSE BreakdownLoop(<<>>, txs, UniqueCategories(txs, {}))

(***************************************************************************)
(* Configuration loader (config.py)                                        *)
(***************************************************************************)
None == "<None>"
NoPath == "<no path>"

\* Python truthiness of an optional string
Truthy(x) == x # None /\ x # ""

\* os.getenv(name)
getenv(env, name) == IF name \in DOMAIN env THEN env[name] ELSE None

\* dict.get(key, default)
DictGet(d, key, default) == IF key \in DOMAIN d THEN d[key] ELSE default

\* load_config(): [raised |-> TRUE] stands for FileNotFoundError
load_config(file) ==
    IF ~file.exists
    THEN [raised |-> TRUE,  config |-> [none |-> None]]
    ELSE [raised |-> FALSE, config |-> file.content]

DefaultFallback(h) == h \o "/Documents/reports"

get_reports_path(env, file, h) ==
    LET env_path == getenv(env, "OMISLISI_REPORTS_PATH")
        loaded == load_config(file)
        reports_path == DictGet(loaded.config, "reports_path", None)
    IN IF Truthy(env_path) THEN env_path
       ELSE IF ~loaded.raised /\ Truthy(reports_path) THEN reports_path
       ELSE DefaultFallback(h)

\* the module-level statements that set REPORTS_PATH at import
ModuleLevelReportsPath(env, file, h) ==
    LET loaded == load_config(file)
    IN IF ~loaded.raised
       THEN DictGet(loaded.config, "reports_path", get_reports_path(env, file, h))
       ELSE get_reports_path(env, file, h)

(***************************************************************************)
(* More text helpers: case, whitespace, numbers, paths                     *)
(***************************************************************************)
\* the letters with a diacritic that the source uses are written as one
\* ASCII character each: s-caron, c-caron, z-caron and e-grave, and the
\* capitals S-caron, C-caron and Z-caron
Diacritic == "%^~!"
UpperDiacritic == "&$#"
\* unicodedata.normalize('NFD', .) without the combining marks (category Mn)
BaseLetter == "scze"

UpperLetters == "ABCDEFGHIJKLMNOPQRSTUVWXYZ" \o UpperDiacritic
LowerLetters == "abcdefghijklmnopqrstuvwxyz" \o Diacritic
Digits == "0123456789"

\* position of the one-character string c in the alphabet abc, 0 when absent
IndexIn(abc, c) ==
    IF \E k \in 1..Len(abc) : CharAt(abc, k) = c
    THEN CHOOSE k \in 1..Len(abc) : CharAt(abc, k) = c
    ELSE 0

\* the k-th lower-case letter, or c itself when k = 0
LowerLetter(k, c) == IF k > 0 THEN CharAt(LowerLetters, k) ELSE c

LowerChar(c) == LowerLetter(IndexIn(UpperLetters, c), c)

\* Python: s.lower()
RECURSIVE Lower(_)
Lower(s) ==
    IF s = "" THEN "" ELSE LowerChar(CharAt(s, 1)) \o Lower(SubSeq(s, 2, Len(s)))

\* white space: blank, tab, line feed, carriage return
IsSpace(c) == c \in {" ", "\t", "\n", "\r"}

\* Python: s.strip()
RECURSIVE Strip(_)
Strip(s) ==
    IF s = "" THEN ""
    ELSE IF IsSpace(CharAt(s, 1)) THEN Strip(SubSeq(s, 2, Len(s)))
    ELSE IF IsSpace(CharAt(s, Len(s))) THEN Strip(SubSeq(s, 1, Len(s) - 1))
    ELSE s

\* Python: s.replace(c, '') for a one-character c
RECURSIVE RemoveChar(_, _)
RemoveChar(s, c) ==
    IF s = "" THEN ""
    ELSE (IF CharAt(s, 1) = c THEN "" ELSE CharAt(s, 1))
            \o RemoveChar(SubSeq(s, 2, Len(s)), c)

IsDigits(s) == \A i \in 1..Len(s) : IndexIn(Digits, CharAt(s, i)) > 0

RECURSIVE DigitsValue(_)
DigitsValue(s) ==
    IF s = "" THEN 0
    ELSE 10 * DigitsValue(SubSeq(s, 1, Len(s) - 1))
            + (IndexIn(Digits, CharAt(s, Len(s))) - 1)

\* A Python float is a finite number of cents or the not-a-number value.
\* Infinities and exponents are outside the modelled texts.
Fin(n) == [nan |-> FALSE, cents |-> n]
NaN == [nan |-> TRUE, cents |-> 0]

\* abs(x), -x, x < 0, x >= 0, x <= 0 on floats: every comparison with
\* not-a-number is False
FAbs(x) == IF x.nan THEN NaN ELSE Fin(Abs(x.cents))
FNeg(x) == IF x.nan THEN NaN ELSE Fin(-x.cents)
FLtZero(x) == ~x.nan /\ x.cents < 0
FGeZero(x) == ~x.nan /\ x.cents >= 0
FLeZero(x) == ~x.nan /\ x.cents <= 0

\* Python: float(text), for decimal text with at most two decimals (optional
\* surrounding blanks, optional sign, digits with an optional point) and
\* for the text "nan" in any case.  [ok |-> FALSE] stands for ValueError.
ParseDigits(negative, whole, frac) ==
    IF ~(/\ IsDigits(whole \o frac)
         /\ Len(whole) + Len(frac) > 0
         /\ Len(frac) <= 2)
    THEN [ok |-> FALSE, value |-> NaN]
    ELSE [ok |-> TRUE,
          value |-> Fin((IF negative THEN -1 ELSE 1)
                        * DigitsValue(whole \o frac \o SubSeq("00", 1, 2 - Len(frac))))]

ParseDecimal(negative, body, dot) ==
    ParseDigits(negative,
                IF dot = 0 THEN body ELSE SubSeq(body, 1, dot - 1),
                IF dot = 0 THEN "" ELSE SubSeq(body, dot + 1, Len(body)))

ParseUnsigned(negative, body) ==
    IF Lower(body) = "nan" THEN [ok |-> TRUE, value |-> NaN]
    ELSE ParseDecimal(negative, body, FindChar(body, "."))

ParseStripped(t) ==
    IF t # "" /\ CharAt(t, 1) \in {"-", "+"}
    THEN ParseUnsigned(CharAt(t, 1) = "-", SubSeq(t, 2, Len(t)))
    ELSE ParseUnsigned(FALSE, t)

ParseFloat(text) == ParseStripped(Strip(text))

\* 1-based position of the last occurrence of the character c in s, else 0
LastIndexOf(s, c) ==
    IF \E i \in 1..Len(s) : CharAt(s, i) = c
    THEN CHOOSE i \in 1..Len(s) :
            CharAt(s, i) = c /\ \A j \in (i + 1)..Len(s) : CharAt(s, j) # c
    ELSE 0

\* pathlib: Path(p).name
PathName(p) == SubSeq(p, LastIndexOf(p, "/") + 1, Len(p))

\* pathlib: Path(p).suffix
PathSuffix(p) ==
    LET name == PathName(p)
        i == LastIndexOf(name, ".")
    IN IF 1 < i /\ i < Len(name) THEN SubSeq(name, i, Len(name)) ELSE ""

\* pathlib: part in Path(p).parts
HasPart(p, part) == Contains("/" \o p \o "/", "/" \o part \o "/")

(***************************************************************************)
(* Regular expressions (Python's re on the patterns the program uses)      *)
(*                                                                         *)
(* A pattern is a sequence of atoms:                                       *)
(*   Lit(t)      the text t                                                *)
(*   Opt(t)      t?          (greedy)                                      *)
(*   Rep(c, n)   c{n,}       (greedy), c one of the classes below          *)
(*   Alt(ps)     (p1|p2|...) a capturing group of alternative patterns     *)
(*   WordEdge    \b                                                        *)
(* and the classes are "\\s" (white space) and "\\." (a literal point).    *)
(***************************************************************************)
Lit(t) == [k |-> "lit", t |-> t]
Opt(t) == [k |-> "opt", t |-> t]
Rep(c, n) == [k |-> "rep", c |-> c, min |-> n]
Alt(ps) == [k |-> "alt", alts |-> ps]
WordEdge == [k |-> "wb"]
\* closes the group opened at position start
EndGroup(start) == [k |-> "end", start |-> start]

CharsOf(abc) == { CharAt(abc, k) : k \in 1..Len(abc) }

\* \w: letters (those with a diacritic included), digits and the underscore
WordChars ==
    CharsOf(LowerLetters \o UpperLetters \o Digits \o "_")

IsWordAt(s, j) == j >= 1 /\ j <= Len(s) /\ CharAt(s, j) \in WordChars

\* \b holds between s[i-1] and s[i]
IsWordEdge(s, i) == IsWordAt(s, i - 1) # IsWordAt(s, i)

\* s[i:].startswith(t)
HasAt(s, i, t) == i + Len(t) - 1 <= Len(s) /\ SubSeq(s, i, i + Len(t) - 1) = t

InClass(c, ch) == IF c = "\\s" THEN IsSpace(ch) ELSE ch = "."

\* the number of consecutive characters of class c from position i on
RECURSIVE RunLength(_, _, _)
RunLength(s, i, c) ==
    IF i <= Len(s) /\ InClass(c, CharAt(s, i)) THEN 1 + RunLength(s, i + 1, c)
    ELSE 0

NoMatch == [ok |-> FALSE]

\* the first alternative that matches wins
OrElse(first, second) == IF first.ok THEN first ELSE second

\* the match of the pattern that starts at position i of s, found by
\* backtracking in the order of the re module; g is the text of the group
RECURSIVE MatchSeq(_, _, _, _)
RECURSIVE MatchRep(_, _, _, _, _, _)
RECURSIVE MatchAlt(_, _, _, _, _)
MatchAtom(a, rest, s, i, g) ==
    CASE a.k = "lit" ->
            IF HasAt(s, i, a.t) THEN MatchSeq(rest, s, i + Len(a.t), g)
            ELSE NoMatch
      [] a.k = "opt" ->
            OrElse(IF HasAt(s, i, a.t) THEN MatchSeq(rest, s, i + Len(a.t), g)
                   ELSE NoMatch,
                   MatchSeq(rest, s, i, g))
      [] a.k = "rep" -> MatchRep(a, rest, s, i, g, RunLength(s, i, a.c))
      [] a.k = "alt" -> MatchAlt(a.alts, rest, s, i, g)
      [] a.k = "wb" -> IF IsWordEdge(s, i) THEN MatchSeq(rest, s, i, g) ELSE NoMatch
      [] a.k = "end" -> MatchSeq(rest, s, i, SubSeq(s, a.start, i - 1))

MatchSeq(pattern, s, i, g) ==
    IF pattern = <<>> THEN [ok |-> TRUE, end |-> i, group |-> g]
    ELSE MatchAtom(Head(pattern), Tail(pattern), s, i, g)

MatchRep(a, rest, s, i, g, n) ==
    IF n < a.min THEN NoMatch
    ELSE OrElse(MatchSeq(rest, s, i + n, g), MatchRep(a, rest, s, i, g, n - 1))

MatchAlt(alts, rest, s, i, g) ==
    IF alts = <<>> THEN NoMatch
    ELSE OrElse(MatchSeq(Head(alts) \o <<EndGroup(i)>> \o rest, s, i, g),
                MatchAlt(Tail(alts), rest, s, i, g))

\* re.search(pattern, s) is not None
re_search(pattern, s) ==
    \E i \in 1..(Len(s) + 1) : MatchSeq(pattern, s, i, "").ok

\* re.sub(pattern, repl, s), where repl is the text repl.text followed, when
\* repl.group, by \1.  No pattern of the program matches the empty text.
RECURSIVE SubFrom(_, _, _, _)
SubStep(pattern, repl, s, i, m) ==
    IF m.ok
    THEN repl.text \o (IF repl.group THEN m.group ELSE "")
            \o SubFrom(pattern, repl, s, m.end)
    ELSE CharAt(s, i) \o SubFrom(pattern, repl, s, i + 1)

SubFrom(pattern, repl, s, i) ==
    IF i > Len(s) THEN ""
    ELSE SubStep(pattern, repl, s, i, MatchSeq(pattern, s, i, ""))

re_sub(pattern, repl, s) == SubFrom(pattern, repl, s, 1)

Text(t) == [text |-> t, group |-> FALSE]

\* ''.join(c for c in unicodedata.normalize('NFD', s)
\*         if unicodedata.category(c) != 'Mn')
BaseChar(k, c) == IF k > 0 THEN CharAt(BaseLetter, k) ELSE c

RECURSIVE RemoveDiacritics(_)
RemoveDiacritics(s) ==
    IF s = "" THEN ""
    ELSE BaseChar(IndexIn(Diacritic, CharAt(s, 1)), CharAt(s, 1))
            \o RemoveDiacritics(SubSeq(s, 2, Len(s)))

(***************************************************************************)
(* Counterparty names (analysis/counterparty_utils.py)                     *)
(***************************************************************************)
SsDooDot == <<WordEdge, Lit("ss"), Rep("\\s", 1), Lit("d.o.o.")>>
SsDooEdge == <<WordEdge, Lit("ss"), Rep("\\s", 1), Lit("d.o.o"), WordEdge>>
CommaSuffix ==
    <<Lit(","), Rep("\\s", 0),
      Alt(<< <<Lit("d.o.o"), Opt(".")>>, <<Lit("d.d"), Opt(".")>>,
             <<Lit("s.p"), Opt(".")>>, <<Lit("z.b.o"), Opt(".")>> >>)>>
DSpaceD == <<WordEdge, Lit("d."), Rep("\\s", 0), Lit("d."), WordEdge>>
Doo == <<WordEdge, Lit("d.o.o"), Opt("."), WordEdge>>
Dd == <<WordEdge, Lit("d.d."), Opt("."), WordEdge>>
Sp == <<WordEdge, Lit("s.p."), Opt("."), WordEdge>>
Zbo == <<WordEdge, Lit("z.b.o"), Opt("."), WordEdge>>
Points == <<Rep("\\.", 2)>>
Blanks == <<Rep("\\s", 1)>>

\* re.sub(r'.*(ctrp|in-fit|infit).*', 'in-fit d.o.o.', normalized): the
\* normalized text has no line break, so the whole of it is one match
Alias(normalized) ==
    IF \/ Contains(normalized, "ctrp") \/ Contains(normalized, "in-fit")
       \/ Contains(normalized, "infit")
    THEN "in-fit d.o.o."
    ELSE normalized

normalize_counterparty_name(name) ==
    Alias(Strip(
      re_sub(Blanks, Text(" "),
      re_sub(Points, Text("."),
      re_sub(Zbo, Text("z.b.o."),
      re_sub(Sp, Text("s.p."),
      re_sub(Dd, Text("d.d."),
      re_sub(Doo, Text("d.o.o."),
      re_sub(CommaSuffix, [text |-> " ", group |-> TRUE],
      re_sub(SsDooEdge, Text("ss d.o.o."),
      re_sub(SsDooDot, Text("ss d.o.o."),
      re_sub(DSpaceD, Text("d.d."),
             RemoveDiacritics(Lower(name))))))))))))))

\* a get_group_key that prefers the account number over the name
get_group_key_ByAccount(account, normalized_name) ==
    IF account # "" THEN "account:" \o account ELSE "name:" \o normalized_name

get_group_key(account, normalized_name) == "name:" \o normalized_name

\* x or 'Unknown'
OrUnknown(x) == IF x # "" THEN x ELSE "Unknown"

\* tx.get('counterparty', '').strip()
StrippedNameOf(tx) ==
    Strip(IF "counterparty" \in DOMAIN tx THEN tx.counterparty ELSE "")

\* tx.get('counterparty', '').strip() or 'Unknown'
CounterpartyOf(tx) == OrUnknown(StrippedNameOf(tx))

\* tx.get('account', '').strip() if tx.get('account') else ''
AccountOf(tx) ==
    IF "account" \in DOMAIN tx /\ tx.account # None /\ tx.account # ""
    THEN Strip(tx.account) ELSE ""

\* the transactions the grouping is run on
CounterpartyNames ==
    {"Acme d.o.o.", "ACME D.O.O", "acme, d.o.o", "Acme d.d.", "Beta s.p.",
     "IN-FIT d.o.o.", " "}

CounterpartyTx ==
    [counterparty : CounterpartyNames, account : {"SI56 1", "SI56 2"},
     amount : {-10000, 2500}]
    \cup { [amount |-> 2500], [counterparty |-> "CTRP Maribor", account |-> None,
                               amount |-> -10000] }

\* normalize_counterparty_name on the names of those transactions, evaluated
\* once
NormalizedNames ==
    [name \in { CounterpartyOf(tx) : tx \in CounterpartyTx } |->
        normalize_counterparty_name(name)]

NormalizedName(name) ==
    IF name \in DOMAIN NormalizedNames THEN NormalizedNames[name]
    ELSE normalize_counterparty_name(name)

GroupKeyOf(tx) == get_group_key(AccountOf(tx), NormalizedName(CounterpartyOf(tx)))

\* the keys of counterparty_stats, in the order of their first transaction
RECURSIVE GroupKeys(_, _)
GroupKeys(keys, seen) ==
    IF keys = <<>> THEN <<>>
    ELSE (IF Head(keys) \in seen THEN <<>> ELSE <<Head(keys)>>)
            \o GroupKeys(Tail(keys), seen \cup {Head(keys)})

RECURSIVE SumOver(_, _)
SumOver(txs, members) ==
    IF members = {} THEN 0
    ELSE txs[CHOOSE i \in members : TRUE].amount
            + SumOver(txs, members \ {CHOOSE i \in members : TRUE})

\* how many transactions of the group carry the name n
NameCount(txs, members, n) ==
    Cardinality({i \in members : StrippedNameOf(txs[i]) = n})

\* one entry of the result; names holds the variants that max() may return:
\* name_variants is a set, so ties are broken by its iteration order
GroupRow(txs, members) ==
    [names |-> { CounterpartyOf(txs[i]) : i \in
                   { i \in members : \A j \in members :
                        NameCount(txs, members, CounterpartyOf(txs[j]))
                           <= NameCount(txs, members, CounterpartyOf(txs[i])) } },
     count |-> Cardinality(members),
     total |-> SumOver(txs, members),
     account_numbers |-> { AccountOf(txs[i]) : i \in members } \ {""}]

\* result.sort(key=lambda x: abs(x['total']), reverse=True): a stable sort,
\* rows of equal |total| keep their order
RECURSIVE InsertRow(_, _)
InsertRow(row, sorted) ==
    IF sorted = <<>> THEN <<row>>
    ELSE IF Abs(Head(sorted).total) >= Abs(row.total)
         THEN <<Head(sorted)>> \o InsertRow(row, Tail(sorted))
         ELSE <<row>> \o sorted

RECURSIVE SortRows(_)
SortRows(rows) ==
    IF rows = <<>> THEN <<>>
    ELSE InsertRow(rows[Len(rows)], SortRows(SubSeq(rows, 1, Len(rows) - 1)))

RowsOf(txs, keys, groups) ==
    [g \in 1..Len(groups) |->
        GroupRow(txs, {i \in 1..Len(txs) : keys[i] = groups[g]})]

GroupedRows(txs, keys) == RowsOf(txs, keys, GroupKeys(keys, {}))

\* result[:limit]
FirstRows(rows, limit) ==
    SubSeq(rows, 1, IF limit < Len(rows) THEN limit ELSE Len(rows))

get_counterparty_breakdowns(txs, limit) ==
    FirstRows(SortRows(GroupedRows(txs, [i \in 1..Len(txs) |-> GroupKeyOf(txs[i])])),
              limit)

(***************************************************************************)
(* Category taxonomy (domain/categories.py)                                *)
(***************************************************************************)
ACCOUNT_CATEGORIES ==
    ("SI56290000059820339" :> "salary:students")

\* the items of the dict, in its order
COUNTERPARTY_CATEGORIES ==
    <<
      <<"rs prehodni davcni podracun", "taxes:advance">>,
      <<"prehodni davcni podracun", "taxes:advance">>,
      <<"prehodni davcni podracun - proracun", "taxes">>,
      <<"pdp - proracun drzave", "taxes">>, <<"furs", "taxes">>,
      <<"furs - prehodni podracun", "taxes:advance">>,
      <<"prehodni davcni podracun - zpiz", "social_security:pension_disability">>,
      <<"prehodni davcni podracun - zzzs", "social_security:health">>,
      <<"mitja pritrznik", "salary:founders">>,
      <<"martin korenjak", "salary:founders">>,
      <<"ss d.o.o.", "salary:students">>, <<"ss", "salary:students">>,
      <<"studentski servis", "salary:students">>,
      <<"studentski servis d.o.o.", "salary:students">>,
      <<"s. d.o.o.", "salary:students">>,
      <<"tjasa fatur", "salary:employees">>,
      <<"ana sinigoj", "salary:employees">>,
      <<"tomaz plesec", "salary:contractual_sales">>,
      <<"sanson sales", "salary:contractual_sales">>,
      <<"sanson sales tomaz plesec s.p.", "salary:contractual_sales">>,
      <<"valuna", "salary:contractual_sales">>,
      <<"valuna ajda hvastija s.p.", "salary:contractual_sales">>,
      <<"ajda hvastija", "salary:contractual_sales">>,
      <<"klemen bogataj", "salary:contractual_sales">>,
      <<"klemen bogataj s.p.", "salary:contractual_sales">>,
      <<"nejc pus", "salary:contractual_sales">>,
      <<"nejc pus s.p.", "salary:contractual_sales">>,
      <<"in-fit", "professional_services:accounting">>,
      <<"in-fit d.o.o.", "professional_services:accounting">>,
      <<"ctrp", "professional_services:accounting">>,
      <<"dru%tvo ctrp maribor", "professional_services:accounting">>,
      <<"dru%tvo ctrp maribor so. p.", "professional_services:accounting">>,
      <<"notarka branka ivanusa", "professional_services:legal">>,
      <<"em-er", "professional_services:legal">>,
      <<"em-er matjaz rambaher", "professional_services:legal">>,
      <<"em-er matjaz rambaher s.p.", "professional_services:legal">>,
      <<"314", "salary:contractual_programming">>,
      <<"314 d.o.o.", "salary:contractual_programming">>,
      <<"foreach labs", "salary:contractual_programming">>,
      <<"foreach labs d.o.o.", "salary:contractual_programming">>,
      <<"smartads", "salary:contractual_marketing">>,
      <<"smartads neza bizjak s.p.", "salary:contractual_marketing">>,
      <<"orelia", "salary:contractual_design">>,
      <<"orelia solutions", "salary:contractual_design">>,
      <<"orelia solutions masa orel s.p.", "salary:contractual_design">>,
      <<"activecampaign", "software:crm">>,
      <<"activecampaign llc", "software:crm">>,
      <<"mailchimp", "software:email">>,
      <<"bradstreet", "software:credit_reporting">>,
      <<"ms3", "software:sms">>, <<"ms3 d.o.o.", "software:sms">>,
      <<"posta slovenije", "utilities:postal">>,
      <<"posta slovenije d.o.o.", "utilities:postal">>,
      <<"epps", "utilities:postal">>, <<"epps d.o.o.", "utilities:postal">>,
      <<"a1", "utilities:mobile">>, <<"a1 slovenija", "utilities:mobile">>,
      <<"a1 slovenija, d. d.", "utilities:mobile">>,
      <<"kik%tarter", "offices:coworking">>,
      <<"kikstarter", "offices:coworking">>,
      <<"zadruga kik%tarter center", "offices:coworking">>,
      <<"zadruga kik%tarter center z.b.o.", "offices:coworking">>,
      <<"abc accelerator", "offices:coworking">>,
      <<"abc accelerator d.o.o.", "offices:coworking">>,
      <<"btc", "offices:coworking">>, <<"btc d.d.", "offices:coworking">>,
      <<"contabo", "software:hosting">>,
      <<"contabo gmbh", "software:hosting">>,
      <<"infosplet", "software:hosting">>,
      <<"infosplet, d.o.o.", "software:hosting">>,
      <<"avant", "software:hosting">>, <<"stripe", "bank_fees">>,
      <<"zapier", "software">>, <<"zapier, inc.", "software">>,
      <<"ahrefs", "software:seo">>, <<"lovable", "software:automation">>,
      <<"canva", "software:design">>, <<"openai", "software:ai">>,
      <<"claude", "software:ai">>, <<"anthropic", "software:ai">>,
      <<"jasper", "software:ai">>, <<"github", "software:development_tools">>,
      <<"github, inc.", "software:development_tools">>,
      <<"cursor", "software:development_tools">>,
      <<"circleci", "software:development_tools">>,
      <<"shutterstock", "marketing:stock_images">>,
      <<"shutterstock inc.", "marketing:stock_images">>,
      <<"meta platforms", "marketing:facebook_ads">>,
      <<"meta platforms, inc.", "marketing:facebook_ads">>,
      <<"facebk", "marketing:facebook_ads">>, <<"seopro", "marketing:seo">>,
      <<"seopro igor bajsic", "marketing:seo">>,
      <<"seopro igor bajsic s.p.", "marketing:seo">>,
      <<"eggmedia", "marketing:agencies">>,
      <<"eggmedia d.o.o.", "marketing:agencies">>,
      <<"pro plus", "marketing:agencies">>,
      <<"pro plus d.o.o.", "marketing:agencies">>,
      <<"4future", "marketing:agencies">>,
      <<"4future dgt agency", "marketing:agencies">>,
      <<"4future dgt agency d.o.o.", "marketing:agencies">>,
      <<"termin informatika", "marketing:agencies">>,
      <<"termin informatika d.o.o.", "marketing:agencies">>,
      <<"mobileshop", "equipment">>, <<"mobileshop.eu", "equipment">>,
      <<"amzn", "amazon">>, <<"amazon", "amazon">>, <<"zzzs", "benefits">>,
      <<"zavod za zaposlovanje", "benefits">>,
      <<"generali sklad", "benefits">>, <<"media24", "other:media">>,
      <<"media24 d.o.o.", "other:media">>, <<"tsmedia", "other:media">>,
      <<"tsmedia d.o.o.", "other:media">>, <<"kip kop", "other:media">>,
      <<"kip kop d.o.o.", "other:media">>, <<"cre8", "other:media">>,
      <<"cre8 d.o.o.", "other:media">>,
      <<"computeruniverse", "other:hardware">>,
      <<"computeruniverse gmbh", "other:hardware">>,
      <<"remarkable", "other:hardware">>,
      <<"remarkable operations", "other:hardware">>,
      <<"eu.store", "other:hardware">>,
      <<"eu.store.ui.com", "other:hardware">>,
      <<"senetic", "other:hardware">>, <<"airbnb", "other:travel">>,
      <<"airbnb payments", "other:travel">>, <<"bestero", "other:travel">>,
      <<"eventim", "other:events">>, <<"mojekarte", "other:events">>,
      <<"bauhaus", "other:furniture">>,
      <<"pisarni%ki stoli", "other:furniture">>,
      <<"pisarni%ki stoli pivk", "other:furniture">>,
      <<"elevenlabs", "other:ai_services">>,
      <<"brevilabs", "other:ai_services">>,
      <<"scrap.io", "other:ai_services">>
    >>

\* the items of the dict, in its order
EXPENSE_CATEGORIES ==
    <<
      [category |-> "bank_fees",
       keywords |->
         <<
           "fee", "bank fee", "transaction fee", "service charge",
           "payment processing fee", "credit card", "credit card payment",
           "provizija", "prilivna provizija", "odlivna provizija",
           "vodenje ra^una", "vodenje poslovnega ra^una", "uporabnina",
           "banking fee", "dh-mobilni", "dh-poslovni", "dh-poslovni",
           "kreditna kartica", "varnostni sms"
         >>],
      [category |-> "software",
       keywords |->
         <<
           "software", "subscription", "license", "saas", "hosting", "cloud",
           "programiranje", "programska oprema", "contabo", "microsoft",
           "adobe", "paypal", "github", "aws", "azure", "digitalocean",
           "linode", "google gsuite", "google*gsuite", "google cloud",
           "google workspace", "gsuite", "openai", "sentry", "circleci",
           "circleci.com"
         >>],
      [category |-> "professional_services",
       keywords |->
         <<
           "legal", "accounting", "consulting", "professional", "lawyer",
           "attorney", "ra^unovodstvo", "ra^unovodski", "svetovanje",
           "odvetnik", "pravnik", "ra^unovodski studio", "svetovanje",
           "plesec", "toma~ plesec", "ajda hvastija", "valuna", "ra^un %t."
         >>],
      [category |-> "office",
       keywords |->
         <<
           "office supplies", "stationery", "printer", "paper", "postage",
           "mail", "po%tne storitve", "po%ta", "papir", "tiskalnik"
         >>],
      [category |-> "utilities",
       keywords |->
         <<
           "electricity", "water", "internet", "phone", "utility", "gsm",
           "elektrika", "voda", "internet", "telefon", "gsm storitve",
           "mobilne storitve"
         >>],
      [category |-> "taxes",
       keywords |->
         <<
           "tax", "vat", "income tax", "corporate tax", "profit tax", "davek",
           "davk", "ddv", "pla^ilo ddv", "dohodnina", "davek od dobi^ka",
           "davek na dohodek", "davek od dohodka pravnih oseb",
           "akontacija davka", "akontacija ddpo", "pla^ilo davka",
           "obra^un davka"
         >>],
      [category |-> "social_security",
       keywords |->
         <<
           "prispevek za piz", "prispevki za piz", "prispevek za ppd",
           "prispevek za ppd in pb", "prispevek za zz", "prispevek za zzzs",
           "prispevki za zdravstvo", "prispevek za pb", "prispevek za stv",
           "prispevki za star%evsko", "prispevki za starsevsko",
           "prispevek za zap", "prispevki za zaposlovanje", "prispevek za do"
         >>],
      [category |-> "salary",
       keywords |->
         <<
           "salary", "wage", "payroll", "employee", "bonus", "vacation",
           "pla^a", "placa", "pla!a", "izpla^ilo", "zaposleni", "regres",
           "bonus", "dopust"
         >>],
      [category |-> "marketing",
       keywords |->
         <<
           "advertising", "marketing", "promotion", "social media",
           "facebook", "ads", "google ads", "google*ads", "facebk", "seo",
           "ogla%evanje", "oglasevanje", "marketing", "promocija", "reklama"
         >>],
      [category |-> "loans",
       keywords |->
         <<
           "loan repayment", "loan payment", "borrowing", "vracilo posojila",
           "odpla^ilo posojila"
         >>],
      [category |-> "travel",
       keywords |->
         <<
           "travel", "hotel", "flight", "transport", "fuel", "taxi", "uber",
           "potovanje", "hotel", "prevoz", "gorivo", "taksi", "letalska",
           "letalo"
         >>],
      [category |-> "meals",
       keywords |->
         <<
           "restaurant", "food", "lunch", "dinner", "cafe", "coffee",
           "restavracija", "hrana", "kosilo", "ve^erja", "kavarna", "kava"
         >>],
      [category |-> "equipment",
       keywords |->
         <<
           "equipment", "hardware", "computer", "monitor", "laptop",
           "printer", "cell phone", "mobile phone", "smartphone",
           "mobileshop", "oprema", "strojna oprema", "ra^unalnik", "monitor",
           "prenosnik"
         >>],
      [category |-> "amazon",
       keywords |->
         <<
           "amazon", "amzn", "amznbusiness", "amzn mktp"
         >>],
      [category |-> "compensations:expenses",
       keywords |->
         <<

         >>],
      [category |-> "other",
       keywords |->
         <<

         >>]
    >>

\* the items of the dict, in its order
INCOME_CATEGORIES ==
    <<
      [category |-> "loans",
       keywords |->
         <<
           "posojilo", "posojilo omisli.si"
         >>],
      [category |-> "transfers",
       keywords |->
         <<
           "transfer", "prenos", "saldacija", "prenos sredstev", "saldacija",
           "trr", "transfer", "sberbank"
         >>],
      [category |-> "benefits",
       keywords |->
         <<
           "benefit", "compensation", "grant", "subsidy", "zzzs",
           "zavod za zdravstveno zavarovanje", "zavod za zaposlovanje",
           "generali sklad", "nadomestilo", "subvencija", "dodatek"
         >>],
      [category |-> "refund",
       keywords |->
         <<
           "refund", "return", "reimbursement", "tax refund", "vra^ilo",
           "prepla^ilo", "povrnitev", "refund", "furs", "rs mf furs",
           "izterjava"
         >>],
      [category |-> "compensations:income",
       keywords |->
         <<
           "projekt", "project", "custom", "enterprise"
         >>],
      [category |-> "sales",
       keywords |->
         <<
           "sale", "revenue", "payment", "invoice", "income", "earnings",
           "subscription", "yearly", "monthly", "quarterly", "tri-monthly",
           "pla^ilo", "takoj%nje pla^ilo", "priliv", "ra^un", "ra^una",
           "%t ra^una", "paket", "premium", "letni paket", "objava v imeniku",
           "naro^nina", "letna", "mese^na", "^etrtletna", "d.o.o.", "s.p.",
           "sp", "doo", "-pro", "-oms", "-pl^", "sent from revolut",
           "revolut", "stripe", "2021-", "2022-", "2023-", "2024-", "2025-",
           "2026-"
         >>],
      [category |-> "other",
       keywords |->
         <<

         >>]
    >>

\* any(word in text for word in words)
AnyIn(words, text) == \E w \in words : Contains(text, w)

_get_taxes_subcategory(description_lower) ==
    IF AnyIn({"pla^ilo ddv", "ddv"}, description_lower) THEN "taxes:vat"
    ELSE IF AnyIn({"akontacija ddpo", "akontacija davka"}, description_lower)
         THEN "taxes:advance"
    ELSE IF AnyIn({"davek od dobi^ka", "davek na dohodek",
                   "davek od dohodka pravnih oseb"}, description_lower)
         THEN "taxes:corporate_tax"
    ELSE IF Contains(description_lower, "dohodnina") THEN "taxes:income_tax"
    ELSE "taxes"

_get_social_security_subcategory(description_lower) ==
    IF Contains(description_lower, "prispevek za do")
    THEN "social_security:long_term_care"
    ELSE IF AnyIn({"prispevek za stv", "prispevki za star%evsko",
                   "prispevki za starsevsko"}, description_lower)
         THEN "social_security:parental"
    ELSE IF AnyIn({"prispevek za zap", "prispevki za zaposlovanje"},
                  description_lower)
         THEN "social_security:unemployment"
    ELSE IF Contains(description_lower, "prispevek za ppd in pb")
         THEN "social_security:pension_disability"
    ELSE IF /\ Contains(description_lower, "prispevek za pb")
            /\ ~Contains(description_lower, "ppd")
         THEN "social_security:work_injury"
    ELSE IF AnyIn({"prispevek za zz", "prispevek za zzzs",
                   "prispevki za zdravstvo"}, description_lower)
         THEN "social_security:health"
    ELSE IF AnyIn({"prispevek za piz", "prispevki za piz", "prispevek za ppd"},
                  description_lower)
         THEN "social_security:pension_disability"
    ELSE "social_security"

_get_professional_services_subcategory(description_lower, counterparty_normalized) ==
    IF /\ Truthy(counterparty_normalized)
       /\ AnyIn({"in-fit", "ctrp"}, counterparty_normalized)
    THEN "professional_services:accounting"
    ELSE IF /\ Truthy(counterparty_normalized)
            /\ \/ Contains(counterparty_normalized, "notarka")
               \/ /\ Contains(counterparty_normalized, "em-er")
                  /\ Contains(counterparty_normalized, "rambaher")
         THEN "professional_services:legal"
    ELSE IF AnyIn({"ra^unovodstvo", "racunovodstvo"}, description_lower)
         THEN "professional_services:accounting"
    ELSE IF AnyIn({"pravno", "notarka", "odvetnik", "pravnik"}, description_lower)
         THEN "professional_services:legal"
    ELSE "professional_services"

_get_marketing_subcategory(description_lower, counterparty_normalized) ==
    IF Truthy(counterparty_normalized)
       /\ Contains(counterparty_normalized, "shutterstock")
    THEN "marketing:stock_images"
    ELSE IF Truthy(counterparty_normalized)
            /\ AnyIn({"meta", "facebk"}, counterparty_normalized)
         THEN "marketing:facebook_ads"
    ELSE IF /\ Truthy(counterparty_normalized)
            /\ \/ /\ Contains(counterparty_normalized, "google")
                  /\ Contains(counterparty_normalized, "ads")
               \/ Contains(counterparty_normalized, "googleadwordseu")
         THEN "marketing:google_ads"
    ELSE IF Truthy(counterparty_normalized)
            /\ Contains(counterparty_normalized, "seopro")
         THEN "marketing:seo"
    ELSE IF Truthy(counterparty_normalized)
            /\ AnyIn({"eggmedia", "pro plus", "4future", "termin informatika"},
                     counterparty_normalized)
         THEN "marketing:agencies"
    ELSE IF /\ Contains(description_lower, "google")
            /\ AnyIn({"ads", "adwordseu"}, description_lower)
         THEN "marketing:google_ads"
    ELSE IF \/ Contains(description_lower, "facebk")
            \/ /\ Contains(description_lower, "facebook")
               /\ Contains(description_lower, "ads")
         THEN "marketing:facebook_ads"
    ELSE IF Contains(description_lower, "seo") THEN "marketing:seo"
    ELSE IF Contains(description_lower, "shutterstock")
         THEN "marketing:stock_images"
    ELSE "marketing"

_get_other_subcategory(description_lower, counterparty_normalized) ==
    IF Truthy(counterparty_normalized)
       /\ AnyIn({"media24", "tsmedia", "kip kop", "cre8"}, counterparty_normalized)
    THEN "other:media"
    ELSE IF Truthy(counterparty_normalized)
            /\ AnyIn({"computeruniverse", "remarkable", "eu.store", "senetic"},
                     counterparty_normalized)
         THEN "other:hardware"
    ELSE IF Truthy(counterparty_normalized)
            /\ AnyIn({"airbnb", "bestero"}, counterparty_normalized)
         THEN "other:travel"
    ELSE IF Truthy(counterparty_normalized)
            /\ AnyIn({"eventim", "mojekarte"}, counterparty_normalized)
         THEN "other:events"
    ELSE IF Truthy(counterparty_normalized)
            /\ AnyIn({"bauhaus", "pisarni%ki stoli"}, counterparty_normalized)
         THEN "other:furniture"
    ELSE IF Truthy(counterparty_normalized)
            /\ AnyIn({"elevenlabs", "brevilabs", "scrap.io"},
                     counterparty_normalized)
         THEN "other:ai_services"
    ELSE IF AnyIn({"media", "ogla%evanje", "reklama"}, description_lower)
         THEN "other:media"
    ELSE IF AnyIn({"airbnb", "hotel", "travel", "bestero"}, description_lower)
         THEN "other:travel"
    ELSE IF AnyIn({"eventim", "mojekarte", "vstopnica", "ticket"},
                  description_lower)
         THEN "other:events"
    ELSE IF AnyIn({"tisk", "digitalni tisk", "print", "printing"},
                  description_lower)
         THEN "other:printing"
    ELSE IF AnyIn({"bauhaus", "stol", "furniture", "pisarni%ki"},
                  description_lower)
         THEN "other:furniture"
    ELSE IF AnyIn({"elevenlabs", "brevilabs", "scrap.io", "ai"}, description_lower)
         THEN "other:ai_services"
    ELSE IF AnyIn({"computeruniverse", "remarkable", "hardware", "equipment"},
                  description_lower)
         THEN "other:hardware"
    ELSE "other"

_get_sales_subcategory(description_lower, counterparty_normalized) ==
    IF Truthy(counterparty_normalized)
       /\ Contains(counterparty_normalized, "stripe")
    THEN "sales:stripe"
    ELSE IF Contains(description_lower, "stripe") THEN "sales:stripe"
    ELSE "sales:invoice"

\* the normalization categorize_transaction applies to the counterparty:
\* its patterns are those of normalize_counterparty_name, but for z.b.o.
ZboC == <<WordEdge, Lit("z.b.o."), Opt("."), WordEdge>>

\* counterparty_normalized: None when there is no counterparty
CounterpartyNormalized(counterparty) ==
    IF ~Truthy(counterparty) THEN None
    ELSE Strip(
      re_sub(Blanks, Text(" "),
      re_sub(Points, Text("."),
      re_sub(ZboC, Text("z.b.o."),
      re_sub(Sp, Text("s.p."),
      re_sub(Dd, Text("d.d."),
      re_sub(Doo, Text("d.o.o."),
      re_sub(CommaSuffix, [text |-> " ", group |-> TRUE],
      re_sub(SsDooEdge, Text("ss d.o.o."),
      re_sub(SsDooDot, Text("ss d.o.o."),
             RemoveDiacritics(Lower(counterparty))))))))))))

\* an account stage that does not look at the type of the transaction
AccountCategory_AnyType(transaction_type, account) ==
    IF Truthy(account) /\ account \in DOMAIN ACCOUNT_CATEGORIES
    THEN ACCOUNT_CATEGORIES[account]
    ELSE None

\* the account stage: the category that the account decides, or None
AccountCategory(transaction_type, account) ==
    IF /\ Truthy(account)
       /\ account \in DOMAIN ACCOUNT_CATEGORIES
       /\ ~(/\ transaction_type = "income"
            /\ StartsWith(ACCOUNT_CATEGORIES[account], "salary"))
    THEN ACCOUNT_CATEGORIES[account]
    ELSE None

\* whether a key of COUNTERPARTY_CATEGORIES matches the normalized name
KeyMatches(counterparty_key, counterparty_normalized) ==
    IF counterparty_key = counterparty_normalized THEN TRUE
    ELSE IF Len(counterparty_key) <= 3
         THEN re_search(<<WordEdge, Lit(counterparty_key), WordEdge>>,
                        counterparty_normalized)
    ELSE IF AnyIn({" d.o.o.", " d.d.", " s.p."}, counterparty_key)
         THEN re_search(<<WordEdge, Lit(counterparty_key)>>,
                        counterparty_normalized)
    ELSE Contains(counterparty_normalized, counterparty_key)

Continue == "<continue>"

\* what the loop does with a matched key: a category is returned, or the
\* scan continues with the next key
MatchedCategory(description, transaction_type, counterparty_normalized, category) ==
    IF transaction_type = "income" /\ StartsWith(category, "salary") THEN Continue
    ELSE IF transaction_type = "expense" /\ category = "benefits" THEN Continue
    ELSE IF /\ Truthy(counterparty_normalized)
            /\ Contains(counterparty_normalized, "stripe")
            /\ transaction_type = "income"
         THEN "sales:stripe"
    ELSE IF /\ Truthy(counterparty_normalized)
            /\ Contains(counterparty_normalized, "stripe")
            /\ transaction_type = "expense" /\ category = "bank_fees"
         THEN category
    ELSE IF transaction_type = "income" /\ category = "bank_fees" THEN Continue
    ELSE IF Truthy(description) /\ category = "taxes:advance"
         THEN IF AnyIn({"prispevek", "prispevki"}, Lower(description))
              THEN _get_social_security_subcategory(Lower(description))
              ELSE category
    ELSE IF Truthy(description) /\ category = "taxes"
         THEN _get_taxes_subcategory(Lower(description))
    ELSE IF Truthy(description) /\ category = "social_security"
         THEN _get_social_security_subcategory(Lower(description))
    ELSE IF Truthy(description) /\ category = "professional_services"
         THEN _get_professional_services_subcategory(Lower(description),
                                                     counterparty_normalized)
    ELSE IF Truthy(description) /\ category = "marketing"
         THEN _get_marketing_subcategory(Lower(description),
                                         counterparty_normalized)
    ELSE IF Truthy(description) /\ category = "other"
         THEN _get_other_subcategory(Lower(description), counterparty_normalized)
    ELSE category

\* the loop over COUNTERPARTY_CATEGORIES.items(): returning, the positions
\* of the items whose key matches and that do not continue the scan
Returning(description, transaction_type, counterparty_normalized) ==
    { k \in DOMAIN COUNTERPARTY_CATEGORIES :
        /\ KeyMatches(COUNTERPARTY_CATEGORIES[k][1], counterparty_normalized)
        /\ MatchedCategory(description, transaction_type,
                           counterparty_normalized,
                           COUNTERPARTY_CATEGORIES[k][2]) # Continue }

Minimum(S) == CHOOSE x \in S : \A y \in S : x <= y

\* the loop returns at the first of them, or runs to its end: None
FirstReturn(returning, description, transaction_type, counterparty_normalized) ==
    IF returning = {} THEN None
    ELSE MatchedCategory(description, transaction_type, counterparty_normalized,
                         COUNTERPARTY_CATEGORIES[Minimum(returning)][2])

CounterpartyLoop(description, transaction_type, counterparty_normalized) ==
    FirstReturn(Returning(description, transaction_type,
                          counterparty_normalized),
                description, transaction_type, counterparty_normalized)

\* the counterparty stage: the category it decides, or None
CounterpartyCategory(description, transaction_type, counterparty, counterparty_normalized) ==
    IF Truthy(counterparty)
    THEN CounterpartyLoop(description, transaction_type,
                          counterparty_normalized)
    ELSE None

\* amount=None
NoAmount == [none |-> TRUE]

\* the amount above which an income is a large deal and a refund an expense
\* compensation: 1000.00
LargeAmount == 100000

\* x > n on floats
FGt(x, n) == ~x.nan /\ x.cents > n

Range(seq) == { seq[i] : i \in DOMAIN seq }

\* the first category of the table, from its k-th item on and "other" left
\* out, that has a keyword in the description, or None
RECURSIVE FirstKeywordCategory(_, _, _)
FirstKeywordCategory(categories, k, description_lower) ==
    IF k > Len(categories) THEN None
    ELSE IF /\ categories[k].category # "other"
            /\ AnyIn(Range(categories[k].keywords), description_lower)
         THEN categories[k].category
    ELSE FirstKeywordCategory(categories, k + 1, description_lower)

\* the items of the table whose category is one of names, in the order of names
RECURSIVE ItemsOf(_, _)
ItemsOf(categories, names) ==
    IF names = <<>> THEN <<>>
    ELSE SelectSeq(categories, LAMBDA item : item.category = Head(names))
            \o ItemsOf(categories, Tail(names))

non_sales_categories == <<"loans", "transfers", "benefits", "refund">>

sales_only_counterparties ==
    {"ss d.o.o.", "ss", "studentski servis", "optispin d.o.o.", "optispin"}

refund_keywords ==
    {"vra^ilo", "vracilo", "prepla^ilo", "preplacilo", "refund", "compensation"}

\* income, once the non-sales categories have been tried
IncomeCategory(non_sales, description_lower, amount, counterparty_normalized) ==
    IF non_sales # None THEN non_sales
    ELSE IF amount # NoAmount /\ FGt(amount, LargeAmount)
         THEN IF /\ Truthy(counterparty_normalized)
                 /\ AnyIn(sales_only_counterparties, counterparty_normalized)
              THEN _get_sales_subcategory(description_lower,
                                          counterparty_normalized)
              ELSE "compensations:income"
    ELSE _get_sales_subcategory(description_lower, counterparty_normalized)

\* the category returned for the category whose keyword matched
Subcategory(category, description_lower, counterparty_normalized) ==
    IF category = "taxes" THEN _get_taxes_subcategory(description_lower)
    ELSE IF category = "social_security"
         THEN _get_social_security_subcategory(description_lower)
    ELSE IF category = "professional_services"
         THEN _get_professional_services_subcategory(description_lower,
                                                     counterparty_normalized)
    ELSE IF category = "marketing"
         THEN _get_marketing_subcategory(description_lower,
                                         counterparty_normalized)
    ELSE category

\* every type but income, once the keywords have been tried
ExpenseCategory(matched, transaction_type, description_lower, counterparty_normalized) ==
    IF matched # None
    THEN Subcategory(matched, description_lower, counterparty_normalized)
    ELSE IF transaction_type = "expense"
         THEN _get_other_subcategory(description_lower, counterparty_normalized)
    ELSE "other"

\* the description stage
DescriptionCategory(description_lower, transaction_type, amount, counterparty_normalized) ==
    IF transaction_type = "income"
    THEN IncomeCategory(
            FirstKeywordCategory(ItemsOf(INCOME_CATEGORIES, non_sales_categories),
                                 1, description_lower),
            description_lower, amount, counterparty_normalized)
    ELSE IF /\ transaction_type = "expense"
            /\ amount # NoAmount /\ FGt(FAbs(amount), LargeAmount)
            /\ AnyIn(refund_keywords, description_lower)
         THEN "compensations:expenses"
    ELSE ExpenseCategory(
            FirstKeywordCategory(EXPENSE_CATEGORIES, 1, description_lower),
            transaction_type, description_lower, counterparty_normalized)

\* stages in which the counterparty is asked before the account
FirstDecided_CounterpartyFirst(by_account, by_counterparty, by_description) ==
    IF by_counterparty # None THEN by_counterparty
    ELSE IF by_account # None THEN by_account
    ELSE by_description

\* the stages in their order: account, counterparty, description
FirstDecided(by_account, by_counterparty, by_description) ==
    IF by_account # None THEN by_account
    ELSE IF by_counterparty # None THEN by_counterparty
    ELSE by_description

CategorizeNormalized(description, transaction_type, amount, counterparty, account, counterparty_normalized) ==
    FirstDecided(
        AccountCategory(transaction_type, account),
        CounterpartyCategory(description, transaction_type, counterparty,
                             counterparty_normalized),
        IF ~Truthy(description) THEN "other"
        ELSE DescriptionCategory(Lower(description), transaction_type, amount,
                                 counterparty_normalized))

categorize_transaction(description, transaction_type, amount, counterparty, account) ==
    CategorizeNormalized(description, transaction_type, amount, counterparty,
                         account, CounterpartyNormalized(counterparty))

(***************************************************************************)
(* Dates (datetime.strptime, datetime.fromisoformat and strftime on the    *)
(* formats the program uses)                                               *)
(***************************************************************************)
\* the characters of the modelled dates, in code point order
CodePoints ==
    " '()*+,-./0123456789:;<=>?@ABCDEFGHIJKLMNOPQRSTUVWXYZ[]_"
        \o "abcdefghijklmnopqrstuvwxyz{|}" \o "!$^&%#~"

RECURSIVE StrLess(_, _)
\* Python: a < b on str
StrLess(a, b) ==
    IF b = "" THEN FALSE
    ELSE IF a = "" THEN TRUE
    ELSE IF CharAt(a, 1) = CharAt(b, 1)
         THEN StrLess(SubSeq(a, 2, Len(a)), SubSeq(b, 2, Len(b)))
         ELSE IndexIn(CodePoints, CharAt(a, 1)) < IndexIn(CodePoints, CharAt(b, 1))

RECURSIVE sorted(_)
\* Python: sorted(S) of a set of str
sorted(S) ==
    IF S = {} THEN <<>>
    ELSE LET least == CHOOSE x \in S : \A y \in S \ {x} : StrLess(x, y)
         IN <<least>> \o sorted(S \ {least})

RECURSIVE Split(_, _)
\* Python: s.split(sep), sep one character
Split(s, sep) ==
    IF FindChar(s, sep) = 0 THEN <<s>>
    ELSE <<SubSeq(s, 1, FindChar(s, sep) - 1)>>
            \o Split(SubSeq(s, FindChar(s, sep) + 1, Len(s)), sep)

\* Python: int(s) of a str: [ok, value]; white space around the digits and a
\* plus sign are accepted (a minus sign cannot occur in a part cut at "-")
ParseInt(s) ==
    LET t == Strip(s)
        d == IF StartsWith(t, "+") THEN SubSeq(t, 2, Len(t)) ELSE t
    IN IF d # "" /\ IsDigits(d)
       THEN [ok |-> TRUE, value |-> DigitsValue(d)]
       ELSE [ok |-> FALSE, value |-> 0]

\* Python: f"{n:02d}", n >= 0
Format02d(n) == IF n < 10 THEN "0" \o ToString(n) ELSE ToString(n)

\* number of days of a month of the proleptic Gregorian calendar
DaysInMonth(y, m) ==
    IF m \in {4, 6, 9, 11} THEN 30
    ELSE IF m # 2 THEN 31
    ELSE IF (y % 4 = 0 /\ y % 100 # 0) \/ y % 400 = 0 THEN 29
    ELSE 28

\* datetime(y, m, d) exists
IsDate(y, m, d) ==
    /\ 1 <= y /\ y <= 9999
    /\ 1 <= m /\ m <= 12
    /\ 1 <= d /\ d <= DaysInMonth(y, m)

DateOf(y, m, d) ==
    IF IsDate(y, m, d) THEN [ok |-> TRUE, year |-> y, month |-> m, day |-> d]
    ELSE [ok |-> FALSE]

\* datetime.fromisoformat(s) on YYYY-MM-DD
IsoDate(s) ==
    IF /\ Len(s) = 10
       /\ CharAt(s, 5) = "-" /\ CharAt(s, 8) = "-"
       /\ IsDigits(SubSeq(s, 1, 4)) /\ IsDigits(SubSeq(s, 6, 7))
       /\ IsDigits(SubSeq(s, 9, 10))
    THEN DateOf(DigitsValue(SubSeq(s, 1, 4)), DigitsValue(SubSeq(s, 6, 7)),
                DigitsValue(SubSeq(s, 9, 10)))
    ELSE [ok |-> FALSE]

\* the day of %d: one or two digits, or a blank and a digit
DayText(t) ==
    IF Len(t) = 2 /\ CharAt(t, 1) = " " THEN SubSeq(t, 2, 2) ELSE t

\* datetime.strptime(s, '%m/%d/%Y'): one or two digits of month and of day,
\* four digits of year
UsDateParts(parts) ==
    IF /\ Len(parts) = 3
       /\ Len(parts[1]) \in {1, 2} /\ IsDigits(parts[1])
       /\ Len(parts[2]) \in {1, 2} /\ IsDigits(DayText(parts[2]))
       /\ Len(parts[3]) = 4 /\ IsDigits(parts[3])
    THEN DateOf(DigitsValue(parts[3]), DigitsValue(parts[1]),
                DigitsValue(DayText(parts[2])))
    ELSE [ok |-> FALSE]

UsDate(s) == UsDateParts(Split(s, "/"))

\* n as text of at least w digits
RECURSIVE ZeroPadded(_, _)
ZeroPadded(n, w) ==
    IF Len(ToString(n)) >= w THEN ToString(n)
    ELSE "0" \o ZeroPadded(n, w - 1)

\* date.strftime('%Y-%m-%d'); the C library writes a year below 1000
\* without leading zeros
Strftime(date) ==
    ToString(date.year) \o "-" \o ZeroPadded(date.month, 2)
        \o "-" \o ZeroPadded(date.day, 2)

\* tx.get('date') and tx['date'].startswith(prefix)
DateStartsWith(tx, prefix) ==
    tx.date # None /\ tx.date # "" /\ StartsWith(tx.date, prefix)

(***************************************************************************)
(* Bank statement parser (parsers/bank_parser.py)                          *)
(*                                                                         *)
(* A statement entry is [RvslInd, Amt, CdtDbtInd, TxDtls] and, when it has *)
(* a booking date, BookgDt: the text of the element, or None when the      *)
(* element is absent.  reference and transaction_id are copied through by  *)
(* the parser and are left out.                                            *)
(***************************************************************************)
NoTxDtls == [present |-> FALSE]

\* etree.parse succeeds and the root is the camt.053 Document
BankCanParse(file) ==
    /\ Lower(PathSuffix(file.path)) = ".xml"
    /\ file.content.kind = "xml"
    /\ file.content.wellformed
    /\ file.content.root = "camt.053:Document"

\* the sign convention of one entry: CdtDbtInd and the parsed Amt
BankSignedAmount(cdt_dbt_ind, amount) ==
    IF cdt_dbt_ind # None /\ cdt_dbt_ind = "DBIT"
    THEN [amount |-> FNeg(FAbs(amount)), type |-> "expense"]
    ELSE [amount |-> FAbs(amount), type |-> "income"]

\* element.text.strip() when the element is there and has text, else ""
TextOf(text) == IF text # None /\ text # "" THEN Strip(text) ELSE ""

BankTransaction(signed, has_details, description, counterparty, account) ==
    [outcome |-> "tx",
     tx |-> [amount |-> signed.amount,
             description |->
                 IF description # "" THEN description
                 ELSE IF has_details /\ counterparty # "" THEN counterparty
                 ELSE "Unknown transaction",
             type |-> signed.type,
             counterparty |-> counterparty,
             account |-> account,
             source |-> "bank"]]

\* counterparty_account is a local of parse that only the details branch
\* assigns: before its first assignment it is unbound, and an entry without
\* details reads what an earlier entry left in it
Unbound == "<unbound>"

\* the counterparty is the debtor of an income and the creditor of an expense
BankEntryDetails(d, signed, counterparty_account) ==
    IF ~d.present
    THEN IF counterparty_account = Unbound THEN [outcome |-> "raise"]
         ELSE BankTransaction(signed, FALSE, "", "", counterparty_account)
    ELSE BankTransaction(signed, TRUE, TextOf(d.AddtlRmtInf),
             TextOf(IF signed.type = "income" THEN d.DbtrNm ELSE d.CdtrNm),
             TextOf(IF signed.type = "income" THEN d.DbtrIBAN ELSE d.CdtrIBAN))

\* transaction["date"] = date
Dated(result, date) ==
    IF result.outcome = "tx"
    THEN [outcome |-> "tx", tx |-> ("date" :> date) @@ result.tx]
    ELSE result

\* the booking date of an entry: the text before "T", rewritten by
\* fromisoformat and strftime when it is a calendar date YYYY-MM-DD and kept
\* as it is otherwise (the compact and week forms that newer Pythons also
\* read are outside the modelled texts)
BankDate(date_str) ==
    IF ~Truthy(date_str) THEN None
    ELSE IF IsoDate(Head(Split(date_str, "T"))).ok
    THEN Strftime(IsoDate(Head(Split(date_str, "T"))))
    ELSE Head(Split(date_str, "T"))

BankEntryAmount(entry, amount, counterparty_account) ==
    IF ~amount.ok THEN [outcome |-> "raise"]
    ELSE Dated(BankEntryDetails(entry.TxDtls,
                                BankSignedAmount(entry.CdtDbtInd, amount.value),
                                counterparty_account),
               BankDate(DictGet(entry, "BookgDt", None)))

\* the body of the loop over entries: [skip], [raise] or [tx]
BankEntry(entry, counterparty_account) ==
    IF entry.RvslInd # None /\ entry.RvslInd # "" /\ Lower(entry.RvslInd) = "true"
    THEN [outcome |-> "skip"]
    ELSE IF entry.Amt = None THEN [outcome |-> "skip"]
    ELSE BankEntryAmount(entry, ParseFloat(entry.Amt), counterparty_account)

\* the transactions so far: an exception discards them, a skip adds nothing
Collect(first, rest) ==
    IF first.outcome = "raise" \/ rest.raised
    THEN [raised |-> TRUE, transactions |-> <<>>]
    ELSE [raised |-> FALSE,
          transactions |->
             (IF first.outcome = "tx" THEN <<first.tx>> ELSE <<>>)
                \o rest.transactions]

\* the loop over entries, with the value of counterparty_account it starts with
RECURSIVE BankEntries(_, _)
BankNextEntries(first, entries, counterparty_account) ==
    Collect(first,
            BankEntries(entries,
                        IF first.outcome = "tx" THEN first.tx.account
                        ELSE counterparty_account))

BankEntries(entries, counterparty_account) ==
    IF entries = <<>> THEN [raised |-> FALSE, transactions |-> <<>>]
    ELSE BankNextEntries(BankEntry(Head(entries), counterparty_account),
                         Tail(entries), counterparty_account)

\* BankParser.parse: [raised |-> TRUE] stands for ValueError
BankParse(content) ==
    IF content.kind # "xml" \/ ~content.wellformed
    THEN [raised |-> TRUE, transactions |-> <<>>]
    ELSE BankEntries(content.entries, Unbound)

(***************************************************************************)
(* PayPal CSV parser (parsers/paypal_parser.py)                            *)
(*                                                                         *)
(* A row is [Description, Date, Net, Name, Email] (Email is the column     *)
(* "From Email Address"); a field is None when the row is shorter than the *)
(* header (csv.DictReader fills it with None).                             *)
(***************************************************************************)
IGNORE_TYPES ==
    { "General Currency Conversion", "Bank Deposit to PP Account",
      "User Initiated Withdrawal" }

PayPalCanParse(file) ==
    /\ Lower(PathSuffix(file.path)) = ".csv"
    /\ Contains(Lower(PathName(file.path)), "paypal")

\* type and amount from the sign of Net
PayPalSignedAmount(net_amount) ==
    IF FLtZero(net_amount)
    THEN [amount |-> net_amount, type |-> "expense"]
    ELSE [amount |-> net_amount, type |-> "income"]

PayPalTransaction(signed, description, counterparty) ==
    [outcome |-> "tx",
     tx |-> [amount |-> signed.amount,
             description |-> IF description # "" THEN description
                             ELSE IF counterparty # "" THEN counterparty
                             ELSE "PayPal transaction",
             type |-> signed.type,
             counterparty |-> counterparty,
             source |-> "paypal"]]

PayPalRowNet(row, net_amount) ==
    IF ~net_amount.ok THEN [outcome |-> "skip"]
    ELSE IF row.Name = None THEN [outcome |-> "raise"]
    ELSE IF Strip(row.Name) = "" /\ row.Email = None THEN [outcome |-> "raise"]
    ELSE PayPalTransaction(PayPalSignedAmount(net_amount.value),
                           Strip(row.Description),
                           Strip(IF Strip(row.Name) # "" THEN row.Name
                                 ELSE row.Email))

\* the date of a row: strptime(date_str, '%m/%d/%Y') rewritten by strftime,
\* or the text itself when strptime does not read it
PayPalDate(date_str) ==
    IF UsDate(date_str).ok THEN Strftime(UsDate(date_str)) ELSE date_str

\* the body of the loop over rows: [skip], [raise] or [tx]
PayPalRow(row) ==
    IF row.Description = None THEN [outcome |-> "raise"]
    ELSE IF Strip(row.Description) \in IGNORE_TYPES THEN [outcome |-> "skip"]
    ELSE IF row.Date = None THEN [outcome |-> "raise"]
    ELSE IF Strip(row.Date) = "" THEN [outcome |-> "skip"]
    ELSE IF row.Net = None THEN [outcome |-> "raise"]
    ELSE Dated(PayPalRowNet(row, ParseFloat(RemoveChar(Strip(row.Net), ","))),
               PayPalDate(Strip(row.Date)))

RECURSIVE PayPalRows(_)
PayPalRows(rows) ==
    IF rows = <<>> THEN [raised |-> FALSE, transactions |-> <<>>]
    ELSE Collect(PayPalRow(Head(rows)), PayPalRows(Tail(rows)))

\* PayPalParser.parse: [raised |-> TRUE] stands for ValueError
PayPalParse(content) ==
    IF content.kind # "csv" \/ ~content.readable
    THEN [raised |-> TRUE, transactions |-> <<>>]
    ELSE PayPalRows(content.rows)

(***************************************************************************)
(* Parser factory (parsers/parser_factory.py)                              *)
(*                                                                         *)
(* A file is [path, source, kind, content]: kind is "file", "dir" or       *)
(* "missing"; source is the provenance path of the pair (the path itself   *)
(* when parse_all_files is given plain paths).                             *)
(***************************************************************************)
\* the parsers are tried in this order: PayPalParser, BankParser
get_parser(file) ==
    IF PayPalCanParse(file) THEN "PayPalParser"
    ELSE IF BankCanParse(file) THEN "BankParser"
    ELSE None

ParserParse(parser, content) ==
    IF parser = "PayPalParser" THEN PayPalParse(content) ELSE BankParse(content)

\* a _is_macos_metadata_file that looks at the file name only
_is_macos_metadata_file_NameOnly(file_path) ==
    StartsWith(PathName(file_path), "._")

_is_macos_metadata_file(file_path) ==
    \/ HasPart(file_path, "__MACOSX")
    \/ StartsWith(PathName(file_path), "._")

\* transaction['source_file'] = source_file_name, for each transaction
StampSourceFile(txs, source_file_name) ==
    [i \in 1..Len(txs) |-> ("source_file" :> source_file_name) @@ txs[i]]

\* a parse_all_files without the try/except: the parser's error leaves it
TryParse_Propagates(result, source_file_path) ==
    IF result.raised
    THEN [raised |-> TRUE, transactions |-> <<>>]
    ELSE [raised |-> FALSE,
          transactions |->
              StampSourceFile(result.transactions, PathName(source_file_path))]

\* the try/except around parser.parse: a parser error is logged and the
\* file contributes nothing
TryParse(result, source_file_path) ==
    IF result.raised
    THEN [raised |-> FALSE, transactions |-> <<>>]
    ELSE [raised |-> FALSE,
          transactions |->
              StampSourceFile(result.transactions, PathName(source_file_path))]

ParseWith(parser, file) ==
    IF parser # None
    THEN TryParse(ParserParse(parser, file.content), file.source)
    ELSE [raised |-> FALSE, transactions |-> <<>>]

\* the body of the loop over (file_path, source_file_path)
ParseOneFile(file) ==
    IF _is_macos_metadata_file(file.path)
    THEN [raised |-> FALSE, transactions |-> <<>>]
    ELSE IF file.kind = "dir" THEN [raised |-> FALSE, transactions |-> <<>>]
    ELSE IF file.kind # "file" THEN [raised |-> FALSE, transactions |-> <<>>]
    ELSE ParseWith(get_parser(file), file)

\* all_transactions.extend(transactions); an exception ends the call
Extend(first, rest) ==
    IF first.raised \/ rest.raised
    THEN [raised |-> TRUE, transactions |-> <<>>]
    ELSE [raised |-> FALSE,
          transactions |-> first.transactions \o rest.transactions]

\* [raised |-> TRUE] stands for an exception leaving parse_all_files
RECURSIVE parse_all_files(_)
parse_all_files(files) ==
    IF files = <<>> THEN [raised |-> FALSE, transactions |-> <<>>]
    ELSE Extend(ParseOneFile(Head(files)), parse_all_files(Tail(files)))

(***************************************************************************)
(* File discovery (parsers/zip_handler.py)                                 *)
(*                                                                         *)
(* A directory tree is the sequence of its entries [path, kind, content]   *)
(* in the order in which the file system lists them.  The content of a zip *)
(* archive is [kind |-> "zip", members]; a member is an entry whose path   *)
(* is relative to the archive.  Glob patterns are matched as on a POSIX    *)
(* file system, case-sensitively.                                          *)
(***************************************************************************)

\* directory.rglob("*" + suffix)
rglob(tree, directory, suffix) ==
    SelectSeq(tree, LAMBDA e : /\ StartsWith(e.path, directory \o "/")
                               /\ EndsWith(PathName(e.path), suffix))

_is_valid_transaction_file(file_path) ==
    /\ ~HasPart(file_path, "__MACOSX")
    /\ ~StartsWith(PathName(file_path), "._")

\* tempfile.mkdtemp(prefix="omislisi_"): a fresh directory for the n-th call
mkdtemp(n) == "/tmp/omislisi_" \o CharAt(Digits, n + 1)

\* extract_zip(zip_path): the extracted tree; [raised |-> TRUE] stands for the
\* exception of zipfile.ZipFile on what is not a zip archive
extract_zip(zip_file, extract_to) ==
    IF zip_file.kind # "file" \/ zip_file.content.kind # "zip"
    THEN [raised |-> TRUE, directory |-> extract_to, tree |-> <<>>]
    ELSE [raised |-> FALSE, directory |-> extract_to,
          tree |-> [i \in DOMAIN zip_file.content.members |->
                      [path |-> extract_to \o "/"
                                   \o zip_file.content.members[i].path,
                       kind |-> zip_file.content.members[i].kind,
                       content |-> zip_file.content.members[i].content]]]

find_xml_files(tree, directory) ==
    SelectSeq(rglob(tree, directory, ".xml"),
              LAMBDA e : e.kind = "file" /\ _is_valid_transaction_file(e.path))

find_csv_files(tree, directory) ==
    SelectSeq(rglob(tree, directory, ".csv"),
              LAMBDA e : _is_valid_transaction_file(e.path))

\* files.append((file, source)) for each of the files
SourcedFrom(files, source) ==
    [i \in DOMAIN files |->
        [path |-> files[i].path, source |-> source, kind |-> files[i].kind,
         content |-> files[i].content]]

\* files.append((csv_file, csv_file)) for each of the files
SelfSourced(files) ==
    [i \in DOMAIN files |->
        [path |-> files[i].path, source |-> files[i].path,
         kind |-> files[i].kind, content |-> files[i].content]]

\* the body of the loop over process_zip_files: the XML files of one archive
ZipXmlFiles(zip_path, extracted) ==
    IF extracted.raised THEN [raised |-> TRUE, files |-> <<>>]
    ELSE [raised |-> FALSE,
          files |-> SourcedFrom(find_xml_files(extracted.tree,
                                               extracted.directory),
                                zip_path)]

\* an exception ends the call
ExtendFiles(first, rest) ==
    IF first.raised \/ rest.raised THEN [raised |-> TRUE, files |-> <<>>]
    ELSE [raised |-> FALSE, files |-> first.files \o rest.files]

\* the loop over process_zip_files(reports_path), n archives extracted so far
RECURSIVE ZipLoop(_, _)
ZipLoop(zip_files, n) ==
    IF zip_files = <<>> THEN [raised |-> FALSE, files |-> <<>>]
    ELSE ExtendFiles(ZipXmlFiles(Head(zip_files).path,
                                 extract_zip(Head(zip_files), mkdtemp(n))),
                     ZipLoop(Tail(zip_files), n + 1))

\* a discovery that also takes the XML files that lie outside the archives
get_all_transaction_files_LooseXml(tree, reports_path) ==
    ExtendFiles(ZipLoop(rglob(tree, reports_path, ".zip"), 0),
                [raised |-> FALSE,
                 files |-> SelfSourced(find_xml_files(tree, reports_path))
                              \o SelfSourced(find_csv_files(tree, reports_path))])

\* [raised |-> TRUE] stands for an exception leaving the function
get_all_transaction_files(tree, reports_path) ==
    ExtendFiles(ZipLoop(rglob(tree, reports_path, ".zip"), 0),
                [raised |-> FALSE,
                 files |-> SelfSourced(find_csv_files(tree, reports_path))])

(***************************************************************************)
(* The analyze command (cli/main.py)                                       *)
(***************************************************************************)
\* transaction['category'] = categorize_transaction(...)
Categorized(transaction) ==
    ("category" :>
        categorize_transaction(DictGet(transaction, "description", ""),
                               DictGet(transaction, "type", ""),
                               DictGet(transaction, "amount", NoAmount),
                               DictGet(transaction, "counterparty", None),
                               DictGet(transaction, "account", None)))
    @@ transaction

\* the amount column of pd.DataFrame(txs), in cents: Series.sum()
\* skips what is not a number
FrameAmount(amount) == IF amount.nan THEN 0 ELSE amount.cents

DataFrame(txs) ==
    [i \in DOMAIN txs |->
        [txs[i] EXCEPT !.amount = FrameAmount(@)]]

\* the summary is echoed field by field: a summary without the counts is a
\* KeyError; then the breakdown is generated and echoed
Echoed(txs, frame, result) ==
    IF ~({"total_income", "total_expenses", "net", "transaction_count",
          "income_count", "expense_count"} \subseteq DOMAIN result)
    THEN [outcome |-> "raised"]
    ELSE [outcome |-> "done", transactions |-> txs, summary |-> result,
          breakdown |-> generate_category_breakdown(frame)]

Summarized(txs, frame) == Echoed(txs, frame, generate_summary(frame))

AnalyzeTransactions(txs) == Summarized(txs, DataFrame(txs))

AnalyzeParsed(result) ==
    IF result.raised THEN [outcome |-> "raised"]
    ELSE AnalyzeTransactions([i \in DOMAIN result.transactions |->
                                 Categorized(result.transactions[i])])

AnalyzeFiles(found) ==
    IF found.raised THEN [outcome |-> "raised"]
    ELSE IF found.files = <<>> THEN [outcome |-> "no files"]
    ELSE AnalyzeParsed(parse_all_files(found.files))

\* Path.exists() of a directory
DirectoryExists(tree, directory) ==
    \E i \in DOMAIN tree :
        \/ StartsWith(tree[i].path, directory \o "/")
        \/ tree[i].path = directory /\ tree[i].kind = "dir"

\* reports_path / year when the option is given
YearPath(reports_path, year) ==
    IF Truthy(year) THEN reports_path \o "/" \o year ELSE reports_path

analyze(tree, reports_path, year) ==
    IF Truthy(year) /\ ~DirectoryExists(tree, YearPath(reports_path, year))
    THEN [outcome |-> "no year directory"]
    ELSE AnalyzeFiles(get_all_transaction_files(tree,
                                                YearPath(reports_path, year)))

(***************************************************************************)
(* The report command (cli/main.py)                                        *)
(*                                                                         *)
(* The options are [month, year, compare_month, compare_year, category,    *)
(* counterparty, by_counterparty, counterparty_limit], None for an option  *)
(* that is not given.  What the command writes is the sequence of its      *)
(* click.echo calls: a line is [text]; the report itself, the comparison   *)
(* and the list of categories are one line each that carries the values    *)
(* they are laid out from.                                                 *)
(***************************************************************************)
\* Python: a or b
Or(a, b) == IF Truthy(a) THEN a ELSE b

Echo(text) == <<[text |-> text]>>

Returned(lines) == [raised |-> FALSE, echoed |-> lines]

Raising(lines) == [raised |-> TRUE, echoed |-> lines]

\* datetime.strptime(s, '%Y-%m') does not raise
YearMonthParts(parts) ==
    /\ Len(parts) = 2
    /\ Len(parts[1]) = 4 /\ IsDigits(parts[1]) /\ DigitsValue(parts[1]) >= 1
    /\ Len(parts[2]) \in {1, 2} /\ IsDigits(parts[2])
    /\ DigitsValue(parts[2]) \in 1..12

IsYearMonth(s) == YearMonthParts(Split(s, "-"))

\* str(datetime.strptime(month, '%Y-%m').year)
YearOfMonth(month) == ToString(DigitsValue(SubSeq(month, 1, 4)))

\* pathlib: Path(p).parent
PathParent(p) == SubSeq(p, 1, LastIndexOf(p, "/") - 1)

\* the directory of a period: the year directory next to a base path that is
\* itself a year directory, else below reports_path
PeriodPath(reports_path, base_reports_path, period_year) ==
    IF PathName(base_reports_path) # "" /\ IsDigits(PathName(base_reports_path))
    THEN PathParent(base_reports_path) \o "/" \o period_year
    ELSE reports_path \o "/" \o period_year

\* period_month[:4]
YearPrefix(period_month) ==
    SubSeq(period_month, 1, Minimum({4, Len(period_month)}))

\* the category filter of apply_filters
CategoryFilter(tx_list, category_lower) ==
    IF Contains(category_lower, ":")
    THEN SelectSeq(tx_list, LAMBDA tx : Lower(tx.category) = category_lower)
    ELSE SelectSeq(tx_list,
                   LAMBDA tx : \/ StartsWith(Lower(tx.category), category_lower \o ":")
                               \/ Lower(tx.category) = category_lower)

\* the counterparty filter of apply_filters
CounterpartyFilter(tx_list, cp_search) ==
    SelectSeq(tx_list,
              LAMBDA tx : Contains(normalize_counterparty_name(tx.counterparty),
                                   cp_search))

apply_filters(tx_list, cat_filter, cp_filter) ==
    IF Truthy(cp_filter)
    THEN CounterpartyFilter(
             IF Truthy(cat_filter) THEN CategoryFilter(tx_list, Lower(cat_filter))
             ELSE tx_list,
             normalize_counterparty_name(cp_filter))
    ELSE IF Truthy(cat_filter) THEN CategoryFilter(tx_list, Lower(cat_filter))
    ELSE tx_list

\* get_all_categories(): the keys of both keyword tables and the base
\* category of the compensations subcategories
TableKeys ==
    { EXPENSE_CATEGORIES[i].category : i \in DOMAIN EXPENSE_CATEGORIES }
        \cup { INCOME_CATEGORIES[i].category : i \in DOMAIN INCOME_CATEGORIES }

get_all_categories ==
    IF "compensations:expenses" \in TableKeys \/ "compensations:income" \in TableKeys
    THEN TableKeys \cup {"compensations"}
    ELSE TableKeys

\* is_valid of the category check: the text before the first ":" (the whole
\* text when there is none) is a known category, whatever the case
IsValidCategory(category_lower) ==
    Head(Split(category_lower, ":")) \in { Lower(c) : c \in get_all_categories }

UnknownCategory(category) ==
    Echo("Error: Unknown category '" \o category \o "'")
        \o << [text |-> "\nAvailable categories:", categories |-> get_all_categories] >>
        \o Echo("\nYou can also use tags like 'salary:founders', 'salary:students', etc.")

\* the transactions of a period once the files are parsed: the month filter,
\* then the categories
PeriodParsed(result, period_month) ==
    IF result.raised THEN [raised |-> TRUE, transactions |-> <<>>]
    ELSE [raised |-> FALSE,
          transactions |->
              [i \in DOMAIN SelectSeq(result.transactions,
                                      LAMBDA tx : ~Truthy(period_month)
                                                  \/ DateStartsWith(tx, period_month)) |->
                  Categorized(SelectSeq(result.transactions,
                                        LAMBDA tx : ~Truthy(period_month)
                                                    \/ DateStartsWith(tx, period_month))[i])]]

PeriodFiles(found, period_month) ==
    IF found.raised THEN [raised |-> TRUE, transactions |-> <<>>]
    ELSE IF found.files = <<>> THEN [raised |-> FALSE, transactions |-> <<>>]
    ELSE PeriodParsed(parse_all_files(found.files), period_month)

PeriodIn(tree, period_reports_path, period_month, checked) ==
    IF checked /\ ~DirectoryExists(tree, period_reports_path)
    THEN [raised |-> FALSE, transactions |-> <<>>]
    ELSE PeriodFiles(get_all_transaction_files(tree, period_reports_path), period_month)

\* the helper of report: [raised, transactions]
get_transactions_for_period(tree, reports_path, period_month, period_year, base_reports_path) ==
    IF Truthy(period_year)
    THEN PeriodIn(tree, PeriodPath(reports_path, base_reports_path, period_year), period_month, TRUE)
    ELSE IF Truthy(period_month)
    THEN PeriodIn(tree, PeriodPath(reports_path, base_reports_path, YearPrefix(period_month)), period_month, TRUE)
    ELSE PeriodIn(tree, base_reports_path, period_month, FALSE)

IsComparison(o) == Truthy(o.compare_month) \/ Truthy(o.compare_year)

ReportTitle(o) ==
    Or(o.month, Or(o.year, "ALL TIME"))
        \o (IF Truthy(o.category) THEN " - Category: " \o o.category ELSE "")
        \o (IF Truthy(o.counterparty) THEN " - Counterparty: " \o o.counterparty ELSE "")

\* the report of one period, or of two periods side by side
ReportLines(o, frame, compare_frame) ==
    IF IsComparison(o)
    THEN << [text |-> "COMPARISON REPORT: " \o ReportTitle(o) \o " vs "
                          \o Or(o.compare_month, o.compare_year),
             summary |-> generate_summary(frame),
             breakdown |-> generate_category_breakdown(frame),
             compare_summary |-> generate_summary(compare_frame),
             compare_breakdown |-> generate_category_breakdown(compare_frame)] >>
    ELSE << [text |-> "REPORT: " \o ReportTitle(o),
             summary |-> generate_summary(frame),
             breakdown |-> generate_category_breakdown(frame)] >>

\* with --by-counterparty the command computes counterparty_list and then
\* reads defaultdict, a name that neither report nor the module imports:
\* NameError, after the report is written and before any counterparty table
ReportDisplayed(o, lines) ==
    IF o.by_counterparty THEN Raising(lines)
    ELSE Returned(lines \o Echo("\nReport generated!"))

ReportDisplay(o, lines, txs, compare_transactions) ==
    ReportDisplayed(o, lines \o ReportLines(o, DataFrame(txs), DataFrame(compare_transactions)))

\* the category check, made once the transactions are filtered
ReportValidate(o, lines, txs, compare_transactions) ==
    IF Truthy(o.category) /\ ~IsValidCategory(Lower(o.category))
    THEN Returned(lines \o UnknownCategory(o.category))
    ELSE ReportDisplay(o, lines, txs, compare_transactions)

FilteredLine(o, period, filtered, original_count) ==
    IF Truthy(o.category) \/ Truthy(o.counterparty)
    THEN Echo("Filtered " \o period \o " period to " \o ToString(Len(filtered))
                \o " transactions (from " \o ToString(original_count) \o " total)")
    ELSE <<>>

ReportCompareFiltered(o, lines, txs, compare_transactions, compare_filtered) ==
    ReportValidate(o,
        lines \o (IF IsComparison(o)
                  THEN FilteredLine(o, "comparison", compare_filtered, Len(compare_transactions))
                  ELSE <<>>),
        txs,
        IF IsComparison(o) THEN compare_filtered ELSE compare_transactions)

ReportFiltered(o, lines, filtered, original_count, compare_transactions) ==
    IF filtered = <<>>
    THEN Returned(lines \o FilteredLine(o, "base", filtered, original_count)
                        \o Echo("No transactions found for base period after filtering"))
    ELSE ReportCompareFiltered(o,
             lines \o FilteredLine(o, "base", filtered, original_count),
             filtered, compare_transactions,
             apply_filters(compare_transactions, o.category, o.counterparty))

ComparisonLines(o, compare_transactions) ==
    IF ~IsComparison(o) THEN <<>>
    ELSE Echo("Found " \o ToString(Len(compare_transactions))
                \o " transactions for comparison period")
         \o (IF compare_transactions = <<>>
             THEN Echo("Warning: No transactions found for comparison period "
                          \o Or(o.compare_month, o.compare_year))
             ELSE <<>>)

ReportCompared(o, lines, txs, compared) ==
    IF compared.raised THEN Raising(lines)
    ELSE ReportFiltered(o, lines \o ComparisonLines(o, compared.transactions),
                        apply_filters(txs, o.category, o.counterparty),
                        Len(txs), compared.transactions)

ReportBase(tree, reports_path, o, lines, period) ==
    IF period.raised THEN Raising(lines)
    ELSE IF period.transactions = <<>>
    THEN Returned(lines \o Echo("No transactions found for "
                                   \o Or(o.month, Or(o.year, "all"))))
    ELSE ReportCompared(o,
             lines \o Echo("Found " \o ToString(Len(period.transactions))
                             \o " transactions for base period"),
             period.transactions,
             IF IsComparison(o)
             THEN get_transactions_for_period(tree, reports_path, o.compare_month,
                      IF Truthy(o.compare_year) THEN o.compare_year
                      ELSE IF Truthy(o.compare_month) THEN YearPrefix(o.compare_month)
                      ELSE None,
                      reports_path)
             ELSE [raised |-> FALSE, transactions |-> <<>>])

ReportHeader(o, base_reports_path) ==
    Echo("Generating report for: " \o Or(o.month, Or(o.year, "all")))
        \o (IF IsComparison(o)
            THEN Echo("Comparing with: " \o Or(o.compare_month, o.compare_year))
            ELSE <<>>)
        \o Echo("Using reports from: " \o base_reports_path)

ReportPeriod(tree, reports_path, o, base_reports_path) ==
    IF Truthy(o.year) /\ ~DirectoryExists(tree, base_reports_path)
    THEN Returned(Echo("Error: Year directory " \o base_reports_path
                          \o " does not exist"))
    ELSE ReportBase(tree, reports_path, o, ReportHeader(o, base_reports_path),
                    get_transactions_for_period(tree, reports_path, o.month, o.year, base_reports_path))

\* year = str(month_date.year) when only the month is given
ReportYear(tree, reports_path, o) ==
    ReportPeriod(tree, reports_path, o, YearPath(reports_path, o.year))

report(tree, reports_path, o) ==
    IF Truthy(o.compare_month) /\ Truthy(o.compare_year)
    THEN Returned(Echo("Error: Cannot specify both --compare-month and --compare-year"))
    ELSE IF Truthy(o.compare_month) /\ ~Truthy(o.month)
    THEN Returned(Echo("Error: Must specify --month when using --compare-month"))
    ELSE IF Truthy(o.compare_year) /\ ~Truthy(o.year)
    THEN Returned(Echo("Error: Must specify --year when using --compare-year"))
    ELSE IF Truthy(o.compare_month) /\ ~IsYearMonth(o.compare_month)
    THEN Returned(Echo("Error: Invalid compare-month format. Use YYYY-MM (e.g., 2025-08)"))
    ELSE IF Truthy(o.month) /\ ~IsYearMonth(o.month)
    THEN Returned(Echo("Error: Invalid month format. Use YYYY-MM (e.g., 2025-08)"))
    ELSE ReportYear(tree, reports_path,
                    [o EXCEPT !.year = IF Truthy(o.month) /\ ~Truthy(o.year)
                                       THEN YearOfMonth(o.month) ELSE o.year])

(***************************************************************************)
(* The trends command (cli/main.py)                                        *)
(*                                                                         *)
(* What the command does is [raised, echoed] as for report: the table of   *)
(* the months and the breakdown by month are one line that carries         *)
(* monthly_data.                                                           *)
(***************************************************************************)
\* datetime.strptime(s, '%Y-%m') of a text that it reads
MonthDate(s) ==
    [year |-> DigitsValue(Split(s, "-")[1]), month |-> DigitsValue(Split(s, "-")[2])]

\* current.strftime('%Y-%m')
MonthText(y, m) == ToString(y) \o "-" \o ZeroPadded(m, 2)

\* months_to_analyze: from the month y-m to the month end_date, month by month
RECURSIVE MonthsFrom(_, _, _)
MonthsFrom(y, m, end_date) ==
    IF y > end_date.year \/ (y = end_date.year /\ m > end_date.month) THEN <<>>
    ELSE <<MonthText(y, m)>>
            \o (IF m = 12 THEN MonthsFrom(y + 1, 1, end_date)
                ELSE MonthsFrom(y, m + 1, end_date))

\* sorted(years_to_load)
YearsToLoad(months_to_analyze) ==
    sorted({ SubSeq(months_to_analyze[i], 1, 4) : i \in DOMAIN months_to_analyze })

\* ', '.join(texts)
RECURSIVE CommaJoined(_)
CommaJoined(texts) ==
    IF texts = <<>> THEN ""
    ELSE IF Len(texts) = 1 THEN texts[1]
    ELSE texts[1] \o ", " \o CommaJoined(Tail(texts))

\* the normalize_counterparty_name that apply_filters of trends defines for
\* itself: the one of counterparty_utils without the rule for "d. d."
trends_normalize_counterparty_name(name) ==
    Alias(Strip(
      re_sub(Blanks, Text(" "),
      re_sub(Points, Text("."),
      re_sub(Zbo, Text("z.b.o."),
      re_sub(Sp, Text("s.p."),
      re_sub(Dd, Text("d.d."),
      re_sub(Doo, Text("d.o.o."),
      re_sub(CommaSuffix, [text |-> " ", group |-> TRUE],
      re_sub(SsDooEdge, Text("ss d.o.o."),
      re_sub(SsDooDot, Text("ss d.o.o."),
             RemoveDiacritics(Lower(name)))))))))))))

TrendsCounterpartyFilter(tx_list, cp_search) ==
    SelectSeq(tx_list,
              LAMBDA tx : Contains(trends_normalize_counterparty_name(tx.counterparty),
                                   cp_search))

\* apply_filters of trends
trends_apply_filters(tx_list, cat_filter, cp_filter) ==
    IF Truthy(cp_filter)
    THEN TrendsCounterpartyFilter(
             IF Truthy(cat_filter) THEN CategoryFilter(tx_list, Lower(cat_filter))
             ELSE tx_list,
             trends_normalize_counterparty_name(cp_filter))
    ELSE IF Truthy(cat_filter) THEN CategoryFilter(tx_list, Lower(cat_filter))
    ELSE tx_list

\* monthly_data[month_str]
MonthData(o, month_str, month_transactions) ==
    IF Truthy(o.category) \/ Truthy(o.counterparty)
    THEN [month |-> month_str,
          summary |-> generate_summary(DataFrame(month_transactions)),
          transactions |-> month_transactions]
    ELSE [month |-> month_str,
          summary |-> generate_summary(DataFrame(month_transactions)),
          transactions |-> month_transactions,
          breakdown |-> generate_category_breakdown(DataFrame(month_transactions))]

\* monthly_data, in the order of months_to_analyze
MonthlyData(o, months_to_analyze, txs) ==
    [i \in DOMAIN months_to_analyze |->
        MonthData(o, months_to_analyze[i],
                  trends_apply_filters(
                      SelectSeq(txs, LAMBDA tx : DateStartsWith(tx, months_to_analyze[i])),
                      o.category, o.counterparty))]

TrendsTitle(o, from_month, to_month) ==
    "TRENDS: " \o from_month \o " to " \o to_month
        \o (IF Truthy(o.category) THEN " - Category: " \o o.category ELSE "")
        \o (IF Truthy(o.counterparty) THEN " - Counterparty: " \o o.counterparty ELSE "")

TrendsDisplay(o, from_month, to_month, months_to_analyze, lines, txs) ==
    Returned(lines
             \o << [text |-> TrendsTitle(o, from_month, to_month),
                    monthly_data |-> MonthlyData(o, months_to_analyze, txs)] >>
             \o Echo("\nTrends analysis complete!"))

\* the transactions of a year are parsed and added
TrendsLoaded(year_str, acc, result) ==
    IF result.raised THEN [acc EXCEPT !.raised = TRUE]
    ELSE [acc EXCEPT !.transactions = @ \o result.transactions,
                     !.echoed = @ \o Echo("Loaded " \o ToString(Len(result.transactions))
                                            \o " transactions from " \o year_str)]

TrendsLoadFiles(year_str, acc, found) ==
    IF found.raised THEN [acc EXCEPT !.raised = TRUE]
    ELSE IF found.files = <<>> THEN acc
    ELSE TrendsLoaded(year_str, acc, parse_all_files(found.files))

TrendsLoadYear(tree, year_reports_path, year_str, acc) ==
    IF ~DirectoryExists(tree, year_reports_path)
    THEN [acc EXCEPT !.echoed = @ \o Echo("Warning: Year directory " \o year_reports_path
                                            \o " does not exist, skipping")]
    ELSE TrendsLoadFiles(year_str, acc, get_all_transaction_files(tree, year_reports_path))

\* the loop over sorted(years_to_load); an exception ends it
RECURSIVE TrendsLoad(_, _, _, _)
TrendsLoad(tree, reports_path, years, acc) ==
    IF years = <<>> \/ acc.raised THEN acc
    ELSE TrendsLoad(tree, reports_path, Tail(years),
                    TrendsLoadYear(tree, reports_path \o "/" \o Head(years), Head(years), acc))

TrendsAnalyze(o, from_month, to_month, months_to_analyze, loaded) ==
    IF loaded.raised THEN Raising(loaded.echoed)
    ELSE IF loaded.transactions = <<>>
    THEN Returned(loaded.echoed \o Echo("No transaction files found!"))
    ELSE TrendsDisplay(o, from_month, to_month, months_to_analyze, loaded.echoed,
                       [i \in DOMAIN loaded.transactions |-> Categorized(loaded.transactions[i])])

TrendsHeader(o, from_month, to_month, years) ==
    Echo("Analyzing trends from " \o from_month \o " to " \o to_month)
        \o (IF Truthy(o.category) THEN Echo("Filter: Category = " \o o.category) ELSE <<>>)
        \o (IF Truthy(o.counterparty)
            THEN Echo("Filter: Counterparty = " \o o.counterparty) ELSE <<>>)
        \o Echo("Loading data from years: " \o CommaJoined(years))

TrendsMonths(tree, reports_path, o, from_month, to_month, months_to_analyze, years) ==
    TrendsAnalyze(o, from_month, to_month, months_to_analyze,
                  TrendsLoad(tree, reports_path, years,
                             [raised |-> FALSE, transactions |-> <<>>,
                              echoed |-> TrendsHeader(o, from_month, to_month, years)]))

TrendsDates(tree, reports_path, o, from_month, to_month, months_to_analyze) ==
    TrendsMonths(tree, reports_path, o, from_month, to_month, months_to_analyze,
                 YearsToLoad(months_to_analyze))

\* start_date = datetime.strptime(from_month, '%Y-%m') and end_date likewise:
\* ValueError for a text that strptime does not read
TrendsRange(tree, reports_path, o, from_month, to_month) ==
    IF Truthy(o.category) /\ ~IsValidCategory(Lower(o.category))
    THEN Returned(Echo("Error: Unknown category '" \o o.category \o "'")
                  \o << [text |-> "\nAvailable categories:",
                         categories |-> get_all_categories] >>)
    ELSE IF ~IsYearMonth(from_month) \/ ~IsYearMonth(to_month) THEN Raising(<<>>)
    ELSE TrendsDates(tree, reports_path, o, from_month, to_month,
                     MonthsFrom(MonthDate(from_month).year, MonthDate(from_month).month,
                                MonthDate(to_month)))

trends(tree, reports_path, o) ==
    IF ~Truthy(o.year) /\ ~Truthy(o.from_month)
    THEN Returned(Echo("Error: Must specify either --year or --from-month"))
    ELSE IF Truthy(o.from_month)
    THEN IF ~IsYearMonth(o.from_month)
         THEN Returned(Echo("Error: Invalid --from-month format. Use YYYY-MM (e.g., 2025-01)"))
         ELSE IF Truthy(o.to_month) /\ ~IsYearMonth(o.to_month)
         THEN Returned(Echo("Error: Invalid --to-month format. Use YYYY-MM (e.g., 2025-12)"))
         ELSE TrendsRange(tree, reports_path, o, o.from_month, Or(o.to_month, o.from_month))
    ELSE TrendsRange(tree, reports_path, o, o.year \o "-01", Or(o.to_month, o.year \o "-12"))

(***************************************************************************)
(* The category command (cli/main.py)                                      *)
(*                                                                         *)
(* What the command does is [raised, echoed]; the summary, the table of    *)
(* the transactions and the table of the counterparties are one line each  *)
(* that carries the values it is laid out from.                            *)
(***************************************************************************)
UpperChar(c) ==
    IF IndexIn(LowerLetters, c) > 0 THEN CharAt(UpperLetters, IndexIn(LowerLetters, c))
    ELSE c

\* Python: s.upper()
RECURSIVE Upper(_)
Upper(s) ==
    IF s = "" THEN "" ELSE UpperChar(CharAt(s, 1)) \o Upper(SubSeq(s, 2, Len(s)))

\* x < y on floats
FLess(x, y) == ~x.nan /\ ~y.nan /\ x.cents < y.cents

\* the sort key of a transaction is less than the one of another
KeyLess(sort, a, b) ==
    IF sort = "date" THEN StrLess(a.date, b.date)
    ELSE IF sort = "amount" THEN FLess(FAbs(a.amount), FAbs(b.amount))
    ELSE StrLess(Lower(a.description), Lower(b.description))

\* a comes before b in the sorted list: the sort is stable, and with
\* reverse=True it is stable too
GoesBefore(sort, a, b) ==
    IF sort = "description" THEN KeyLess(sort, a, b) ELSE KeyLess(sort, b, a)

InsertSorted(sort, tx, done) ==
    IF \E i \in DOMAIN done : GoesBefore(sort, tx, done[i])
    THEN SubSeq(done, 1, Minimum({ i \in DOMAIN done : GoesBefore(sort, tx, done[i]) }) - 1)
            \o <<tx>>
            \o SubSeq(done, Minimum({ i \in DOMAIN done : GoesBefore(sort, tx, done[i]) }),
                      Len(done))
    ELSE done \o <<tx>>

\* category_transactions.sort(key=..., reverse=...)
RECURSIVE SortedBy(_, _)
SortedBy(sort, txs) ==
    IF txs = <<>> THEN <<>>
    ELSE InsertSorted(sort, txs[Len(txs)], SortedBy(sort, SubSeq(txs, 1, Len(txs) - 1)))

\* None < str is a TypeError: a date that is None cannot be compared
SortRaises(sort, txs) ==
    sort = "date" /\ Len(txs) >= 2 /\ \E i \in DOMAIN txs : txs[i].date = None

\* sum(tx.get('amount', 0) for tx in category_transactions)
TotalAmount(txs) ==
    IF \E i \in DOMAIN txs : txs[i].amount.nan THEN NaN
    ELSE Fin(SumAmounts([i \in DOMAIN txs |-> [amount |-> txs[i].amount.cents]]))

\* the filters by type and by amount
TypeFilter(txs, type) ==
    IF type = "all" THEN txs
    ELSE SelectSeq(txs, LAMBDA tx : Lower(tx.type) = Lower(type))

MinFilter(txs, min_amount) ==
    IF min_amount = NoAmount THEN txs
    ELSE SelectSeq(txs, LAMBDA tx : ~FAbs(tx.amount).nan
                                    /\ FAbs(tx.amount).cents >= min_amount.cents)

MaxFilter(txs, max_amount) ==
    IF max_amount = NoAmount THEN txs
    ELSE SelectSeq(txs, LAMBDA tx : ~FAbs(tx.amount).nan
                                    /\ FAbs(tx.amount).cents <= max_amount.cents)

PeriodLine(o, year) ==
    IF Truthy(o.month) THEN Echo("Period: " \o o.month)
    ELSE IF Truthy(year) THEN Echo("Year: " \o year)
    ELSE Echo("Period: All time")

SummaryLine(o, txs) ==
    << [text |-> "CATEGORY: " \o Upper(o.category),
        total_amount |-> TotalAmount(txs),
        income_count |-> Len(SelectSeq(txs, LAMBDA tx : tx.type = "income")),
        expense_count |-> Len(SelectSeq(txs, LAMBDA tx : tx.type = "expense"))] >>

\* len(counterparty_display): its keys are the names of counterparty_list,
\* and two groups never share a name, their normalized names being different
DisplayedCount(counterparty_list) == Len(counterparty_list)

CounterpartyTable(o, counterparty_list) ==
    << [text |-> "\nCounterparty Breakdown ("
                    \o ToString(DisplayedCount(counterparty_list))
                    \o " unique counterparties):",
        counterparty_list |-> counterparty_list] >>
    \o (IF DisplayedCount(counterparty_list) > o.limit
        THEN Echo("\n... and " \o ToString(DisplayedCount(counterparty_list) - o.limit)
                    \o " more counterparties (use --limit to see more)")
        ELSE <<>>)

TransactionTable(o, txs) ==
    << [text |-> "\nShowing " \o ToString(Len(FirstRows(txs, o.limit))) \o " of "
                    \o ToString(Len(txs)) \o " transactions",
        transactions |-> FirstRows(txs, o.limit)] >>
    \o (IF Len(txs) > o.limit
        THEN Echo("\n... and " \o ToString(Len(txs) - o.limit)
                    \o " more transactions (use --limit to see more)")
        ELSE <<>>)

CategoryDisplay(o, year, lines, txs) ==
    IF txs = <<>>
    THEN Returned(lines \o SummaryLine(o, txs) \o PeriodLine(o, year)
                        \o Echo("\nNo transactions found matching the criteria."))
    ELSE IF o.by_counterparty
    THEN Returned(lines \o SummaryLine(o, txs) \o PeriodLine(o, year)
                        \o CounterpartyTable(o, get_counterparty_breakdowns(DataFrame(txs),
                                                                         o.limit * 10)))
    ELSE Returned(lines \o SummaryLine(o, txs) \o PeriodLine(o, year)
                        \o TransactionTable(o, txs))

CategorySorted(o, year, lines, txs) ==
    IF SortRaises(o.sort, txs) THEN Raising(lines)
    ELSE CategoryDisplay(o, year, lines, SortedBy(o.sort, txs))

\* the month filter, the categories, then the filters by category, type and
\* amount
CategoryParsed(o, year, lines, result) ==
    IF result.raised THEN Raising(lines)
    ELSE CategorySorted(o, year, lines,
             MaxFilter(MinFilter(TypeFilter(
                 CategoryFilter(PeriodParsed(result, o.month).transactions,
                                Lower(o.category)),
                 o.type), o.min_amount), o.max_amount))

CategoryFiles(o, year, lines, found) ==
    IF found.raised THEN Raising(lines)
    ELSE CategoryParsed(o, year, lines, parse_all_files(found.files))

CategoryYear(tree, reports_path, o, year) ==
    IF Truthy(year) /\ ~DirectoryExists(tree, YearPath(reports_path, year))
    THEN Returned(Echo("Error: Year directory " \o YearPath(reports_path, year)
                          \o " does not exist"))
    ELSE CategoryFiles(o, year,
                       Echo("Loading transactions from: " \o YearPath(reports_path, year)),
                       get_all_transaction_files(tree, YearPath(reports_path, year)))

category(tree, reports_path, o) ==
    IF ~IsValidCategory(Lower(o.category))
    THEN Returned(UnknownCategory(o.category))
    ELSE IF Truthy(o.month) /\ ~Truthy(o.year)
    THEN IF ~IsYearMonth(o.month)
         THEN Returned(Echo("Error: Invalid month format. Use YYYY-MM (e.g., 2025-08)"))
         ELSE CategoryYear(tree, reports_path, o, YearOfMonth(o.month))
    ELSE CategoryYear(tree, reports_path, o, o.year)

(***************************************************************************)
(* Dashboard data: the year comparison (analysis/dashboard_data.py)        *)
(*                                                                         *)
(* A transaction is [date, type, amount, category]; its date is the text   *)
(* the parser kept (ISO when the parser could read it, the raw text        *)
(* otherwise) or None.  A percentage is the fraction [num, den].           *)
(***************************************************************************)
\* tx['date'][:7].split('-'): the parts of the month text of a transaction
MonthParts(tx) == Split(SubSeq(tx.date, 1, Minimum({7, Len(tx.date)})), "-")

\* the set current_year_months; month_str.split('-')[1] raises IndexError on
\* a date without "-" in its first seven characters
current_year_months(all_current_transactions) ==
    IF \E i \in DOMAIN all_current_transactions :
          Len(MonthParts(all_current_transactions[i])) < 2
    THEN [raised |-> TRUE, months |-> {}]
    ELSE [raised |-> FALSE,
          months |-> { MonthParts(all_current_transactions[i])[2] :
                          i \in DOMAIN all_current_transactions }]

\* generate_summary(month_tx) if month_tx else None
SummaryOrNone(month_tx) ==
    IF month_tx = <<>> THEN [present |-> FALSE]
    ELSE [present |-> TRUE, summary |-> generate_summary(month_tx)]

\* one pass of the loop over sorted(current_year_months), for a month text
\* that int() reads
MonthPass(txs, all_current_transactions, current_year_str, previous_year_str, month_str) ==
    [month_str |-> month_str,
     current_month_tx |->
        SelectSeq(all_current_transactions,
                  LAMBDA tx : StartsWith(tx.date, current_year_str \o "-" \o month_str)),
     previous_month_tx |->
        SelectSeq(txs, LAMBDA tx : DateStartsWith(tx, previous_year_str \o "-" \o month_str))]

RECURSIVE MonthLoop(_, _, _, _, _)
\* the loop over sorted(current_year_months): [raised, current_transactions,
\* previous_transactions, monthly_comparison]; int(month_num) raises
\* ValueError on a month text that is not a number
MonthAfter(pass, rest) ==
    IF rest.raised THEN rest
    ELSE [raised |-> FALSE,
          current_transactions |-> pass.current_month_tx \o rest.current_transactions,
          previous_transactions |-> pass.previous_month_tx \o rest.previous_transactions,
          monthly_comparison |->
              rest.monthly_comparison @@
              (pass.month_str :> [current |-> SummaryOrNone(pass.current_month_tx),
                                  previous |-> SummaryOrNone(pass.previous_month_tx)])]

MonthLoop(txs, all_current_transactions, current_year_str, previous_year_str, months) ==
    IF months = <<>>
    THEN [raised |-> FALSE, current_transactions |-> <<>>,
          previous_transactions |-> <<>>, monthly_comparison |-> <<>>]
    ELSE IF ~ParseInt(Head(months)).ok
    THEN [raised |-> TRUE]
    ELSE MonthAfter(MonthPass(txs, all_current_transactions, current_year_str, previous_year_str, Format02d(ParseInt(Head(months)).value)),
                    MonthLoop(txs, all_current_transactions, current_year_str, previous_year_str, Tail(months)))

\* (change / base * 100) if base != 0 else 0
ChangePct(change, base) ==
    IF base # 0 THEN [num |-> change * 100, den |-> base]
    ELSE [num |-> 0, den |-> 1]

YearChanges(current_summary, previous_summary) ==
    [income_change |-> current_summary.total_income - previous_summary.total_income,
     income_change_pct |->
        ChangePct(current_summary.total_income - previous_summary.total_income,
                  previous_summary.total_income),
     expense_change |-> current_summary.total_expenses - previous_summary.total_expenses,
     expense_change_pct |->
        ChangePct(current_summary.total_expenses - previous_summary.total_expenses,
                  previous_summary.total_expenses),
     net_change |-> current_summary.net - previous_summary.net,
     net_change_pct |->
        ChangePct(current_summary.net - previous_summary.net, Abs(previous_summary.net))]

YearComparison(current_year_str, previous_year_str, loop) ==
    IF loop.raised THEN [raised |-> TRUE]
    ELSE [raised |-> FALSE,
          current_year |-> current_year_str,
          previous_year |-> previous_year_str,
          current_summary |-> generate_summary(loop.current_transactions),
          previous_summary |-> generate_summary(loop.previous_transactions),
          current_breakdown |-> generate_category_breakdown(loop.current_transactions),
          previous_breakdown |-> generate_category_breakdown(loop.previous_transactions),
          changes |-> YearChanges(generate_summary(loop.current_transactions),
                                  generate_summary(loop.previous_transactions)),
          monthly_comparison |-> loop.monthly_comparison]

YearComparisonOf(txs, all_current_transactions, current_year_str, previous_year_str, found) ==
    IF found.raised THEN [raised |-> TRUE]
    ELSE YearComparison(current_year_str, previous_year_str,
                        MonthLoop(txs, all_current_transactions, current_year_str, previous_year_str, sorted(found.months)))

YearComparisonIn(txs, all_current_transactions, current_year_str, previous_year_str) ==
    YearComparisonOf(txs, all_current_transactions, current_year_str, previous_year_str, current_year_months(all_current_transactions))

get_year_comparison_data(txs, current_year, previous_year) ==
    YearComparisonIn(txs, SelectSeq(txs, LAMBDA tx : DateStartsWith(tx, ToString(current_year))), ToString(current_year), ToString(previous_year))

(***************************************************************************)
(* Dashboard renderer (templates/renderer.py)                              *)
(***************************************************************************)
\* output_dir.glob('*.html')
GlobHtml(dir) == { f \in dir : EndsWith(f, ".html") }

\* mutant: only the names of expected_html_files are unlinked
AfterUnlinkHtml_ExpectedOnly(dir) ==
    dir \ { "index.html", "ytd.html", "trends_12m.html", "categories.html",
            "counterparties.html" }

\* the loop that unlinks every globbed file
AfterUnlinkHtml(dir) == dir \ GlobHtml(dir)

\* the render_* calls of render_dashboard, in order, with the file each writes
RenderSteps ==
    << [step |-> "render_index",               file |-> "index.html"],
       [step |-> "render_categories",          file |-> "categories.html"],
       [step |-> "render_counterparties",      file |-> "counterparties.html"],
       [step |-> "render_category_trends",     file |-> "category_trends.html"],
       [step |-> "render_counterparty_trends", file |-> "counterparty_trends.html"] >>

\* page renderers that render_dashboard does not call
DirectRenderFiles ==
    { "current_month.html", "ytd.html", "trends_12m.html", "year_comparison.html" }

StaticAssets == { "dashboard.css", "dashboard.js" }

(***************************************************************************)
(* Reporter state machine: a caller holds a transaction list and asks for  *)
(* its summary and its breakdown.                                          *)
(***************************************************************************)
MaxTx == 3

ReporterTx ==
    { [type |-> "income",  amount |-> 100000, category |-> "sales:invoice"],
      [type |-> "income",  amount |-> 50000,  category |-> "sales:stripe"],
      [type |-> "income",  amount |-> 0,      category |-> "refund"],
      [type |-> "expense", amount |-> -20000, category |-> "office"],
      [type |-> "expense", amount |-> -15000, category |-> "taxes"],
      [type |-> "expense", amount |-> -20000, category |-> "taxes:vat"],
      [type |-> "expense", amount |-> -5000,  category |-> "taxes:advance"],
      [type |-> "expense", amount |-> -10000, category |-> "software"] }

SeqsUpTo(S, n) == UNION { [1..k -> S] : k \in 0..n }

InitReporter ==
    /\ transactions \in SeqsUpTo(ReporterTx, MaxTx)
    /\ summary = NoVal
    /\ breakdown = NoVal

GenerateSummary ==
    /\ summary = NoVal
    /\ summary' = generate_summary(transactions)
    /\ UNCHANGED <<transactions, breakdown, notReporter>>

GenerateCategoryBreakdown ==
    /\ breakdown = NoVal
    /\ breakdown' = generate_category_breakdown(transactions)
    /\ UNCHANGED <<transactions, summary, notReporter>>

(***************************************************************************)
(* Configuration state machine: the environment and the config file are    *)
(* prepared, the package is imported (REPORTS_PATH is computed once), and  *)
(* get_reports_path() is called.                                           *)
(***************************************************************************)
EnvValues == { "", "/env/a", "/env/b" }
ConfigContents ==
    { [reports_path |-> "/cfg/a"], [reports_path |-> "/cfg/b"],
      [other_key |-> "x"] }
Homes == { "/home/a", "/home/b", "/root" }

IdleConfig ==
    /\ environ = <<>>
    /\ config_file = [exists |-> FALSE, content |-> [other_key |-> "x"]]
    /\ home = "/root"
    /\ REPORTS_PATH = NoPath
    /\ resolved = NoPath

InitConfig ==
    /\ environ = <<>>
    /\ config_file = [exists |-> FALSE, content |-> [other_key |-> "x"]]
    /\ home \in Homes
    /\ REPORTS_PATH = NoPath
    /\ resolved = NoPath

\* the user exports OMISLISI_REPORTS_PATH before starting the program
SetEnv(v) ==
    /\ REPORTS_PATH = NoPath
    /\ environ' = ("OMISLISI_REPORTS_PATH" :> v)
    /\ environ' # environ
    /\ UNCHANGED <<config_file, home, REPORTS_PATH, resolved, notConfig>>

\* the user creates config.yaml before starting the program
WriteConfig(c) ==
    /\ REPORTS_PATH = NoPath
    /\ config_file' = [exists |-> TRUE, content |-> c]
    /\ config_file' # config_file
    /\ UNCHANGED <<environ, home, REPORTS_PATH, resolved, notConfig>>

ImportConfig ==
    /\ REPORTS_PATH = NoPath
    /\ REPORTS_PATH' = ModuleLevelReportsPath(environ, config_file, home)
    /\ UNCHANGED <<environ, config_file, home, resolved, notConfig>>

GetReportsPath ==
    /\ REPORTS_PATH # NoPath
    /\ resolved = NoPath
    /\ resolved' = get_reports_path(environ, config_file, home)
    /\ UNCHANGED <<environ, config_file, home, REPORTS_PATH, notConfig>>

(***************************************************************************)
(* Renderer state machine: render_dashboard runs step by step against an   *)
(* output directory that may hold anything; between runs other files can   *)
(* appear (a page rendered directly, a stray file).                        *)
(***************************************************************************)
MaxRenders == 2

StrayFiles == { "orphaned.html", "notes.txt" }

IdleRenderer ==
    /\ out_dir = {}
    /\ static_dir = {}
    /\ render_pc = "idle"
    /\ unlinked = {}
    /\ render_count = 0

InitRenderer ==
    /\ out_dir \in SUBSET ({ RenderSteps[i].file : i \in 1..2 }
                            \cup { "ytd.html" } \cup StrayFiles)
    /\ static_dir \in { {}, { "old.js" } }
    /\ render_pc = "idle"
    /\ unlinked = {}
    /\ render_count = 0

\* output_dir.mkdir(parents=True, exist_ok=True)
StartRender ==
    /\ render_pc = "idle"
    /\ render_count < MaxRenders
    /\ render_pc' = "clean"
    /\ unlinked' = {}
    /\ UNCHANGED <<out_dir, static_dir, render_count, notRenderer>>

\* for html_file in output_dir.glob('*.html'): html_file.unlink()
CleanHtml ==
    /\ render_pc = "clean"
    /\ out_dir' = AfterUnlinkHtml(out_dir)
    /\ unlinked' = out_dir \ out_dir'
    /\ render_pc' = "static"
    /\ UNCHANGED <<static_dir, render_count, notRenderer>>

\* rmtree(static_dir), mkdir, copy of the assets that the package ships
ResetStatic ==
    /\ render_pc = "static"
    /\ \E shipped \in { {}, StaticAssets } : static_dir' = shipped
    /\ render_pc' = RenderSteps[1].step
    /\ UNCHANGED <<out_dir, unlinked, render_count, notRenderer>>

\* one render_* call writes its page
RenderPage(i) ==
    /\ render_pc = RenderSteps[i].step
    /\ out_dir' = out_dir \cup { RenderSteps[i].file }
    /\ render_pc' = IF i < Len(RenderSteps) THEN RenderSteps[i + 1].step ELSE "done"
    /\ render_count' = IF i < Len(RenderSteps) THEN render_count ELSE render_count + 1
    /\ UNCHANGED <<static_dir, unlinked, notRenderer>>

\* a render_* call raises (the data lacks a key): render_dashboard propagates it
RenderRaises(i) ==
    /\ render_pc = RenderSteps[i].step
    /\ render_pc' = "failed"
    /\ UNCHANGED <<out_dir, static_dir, unlinked, render_count, notRenderer>>

\* control is back at the caller
RenderReturn ==
    /\ render_pc \in { "done", "failed" }
    /\ render_pc' = "idle"
    /\ UNCHANGED <<out_dir, static_dir, unlinked, render_count, notRenderer>>

\* between runs: a page renderer is called directly, or a stray file appears
CreateFile(f) ==
    /\ render_pc = "idle"
    /\ render_count > 0
    /\ f \notin out_dir
    /\ out_dir' = out_dir \cup { f }
    /\ UNCHANGED <<static_dir, render_pc, unlinked, render_count, notRenderer>>

(***************************************************************************)
(* State machine of the parsers: a parser is handed a file's content       *)
(***************************************************************************)
MaxEntries == 2

TxDtlsChoices ==
    { [present |-> TRUE, AddtlRmtInf |-> " Invoice 12 ", DbtrNm |-> "Acme d.o.o.",
       CdtrNm |-> "Shop", DbtrIBAN |-> "SI56 1", CdtrIBAN |-> "SI56 2"],
      [present |-> TRUE, AddtlRmtInf |-> None, DbtrNm |-> " Acme ",
       CdtrNm |-> None, DbtrIBAN |-> None, CdtrIBAN |-> "SI56 2"] }

NtryChoices ==
    [RvslInd : {None, "TRUE", "false"}, Amt : {None, "100.50", "-7.00", "abc", "nan"},
     CdtDbtInd : {None, "CRDT", "DBIT"}, TxDtls : {NoTxDtls}]
    \cup [RvslInd : {None}, Amt : {"50.25"}, CdtDbtInd : {"CRDT", "DBIT"},
          TxDtls : TxDtlsChoices, BookgDt : {"2025-10-01T09:30:00"}]

RowChoices ==
    [Description : {"Payment", "General Currency Conversion", ""},
     Date : {"10/1/2025", ""},
     Net : {"-18.30", "1,000.00", "abc", "nan", " 5 "},
     Name : {"Shop"}, Email : {"shop@example.com"}]
    \cup { [Description |-> "", Date |-> "10/2/2025", Net |-> "0.00",
            Name |-> " ", Email |-> "shop@example.com"],
           [Description |-> "", Date |-> "10/2/2025", Net |-> "-0.5",
            Name |-> "", Email |-> ""],
           [Description |-> "Payment", Date |-> "10/2/2025", Net |-> None,
            Name |-> None, Email |-> None] }

\* the contents a parser may be handed: a well-formed camt.053 statement, a
\* file that is not XML, a readable CSV export, a file that cannot be decoded
StatementChoices(n) ==
    { [kind |-> "xml", wellformed |-> TRUE, root |-> "camt.053:Document",
       entries |-> es] : es \in SeqsUpTo(NtryChoices, n) }
    \cup { [kind |-> "xml", wellformed |-> FALSE, root |-> None, entries |-> <<>>] }
    \cup { [kind |-> "csv", readable |-> TRUE, rows |-> rs] :
              rs \in SeqsUpTo(RowChoices, n) }
    \cup { [kind |-> "csv", readable |-> FALSE, rows |-> <<>>] }

IdleParser ==
    /\ statement = NoVal
    /\ parsed = NoVal

InitParser ==
    /\ statement \in StatementChoices(MaxEntries)
    /\ parsed = NoVal

\* BankParser().parse(file_path)
BankParserParse ==
    /\ statement # NoVal
    /\ parsed = NoVal
    /\ parsed' = [parser |-> "BankParser"] @@ BankParse(statement)
    /\ UNCHANGED <<statement, notParser>>

\* PayPalParser().parse(file_path)
PayPalParserParse ==
    /\ statement # NoVal
    /\ parsed = NoVal
    /\ parsed' = [parser |-> "PayPalParser"] @@ PayPalParse(statement)
    /\ UNCHANGED <<statement, notParser>>

(***************************************************************************)
(* State machine of the factory: parse_all_files is handed a list of files *)
(***************************************************************************)
MaxFiles == 2

TestCompanyDetails ==
    [present |-> TRUE, AddtlRmtInf |-> "Test payment",
     DbtrNm |-> "Test Company", CdtrNm |-> "Test Company",
     DbtrIBAN |-> "SI56 1", CdtrIBAN |-> "SI56 1"]

GoodStatement ==
    [kind |-> "xml", wellformed |-> TRUE, root |-> "camt.053:Document",
     entries |-> << [RvslInd |-> None, Amt |-> "100.50", CdtDbtInd |-> "CRDT",
                     TxDtls |-> TestCompanyDetails,
                     BookgDt |-> "2025-10-01"] >>]

GoodExport ==
    [kind |-> "csv", readable |-> TRUE,
     rows |-> << [Description |-> "Payment", Date |-> "10/1/2025",
                  Net |-> "-18.30", Name |-> "Shop",
                  Email |-> "shop@example.com"] >>]

NoContent == [kind |-> "none"]

FileChoices ==
    { [path |-> "/tmp/omislisi_1/statement.xml", source |-> "/reports/2025-10.zip",
       kind |-> "file", content |-> GoodStatement],
      [path |-> "/tmp/omislisi_1/__MACOSX/statement.xml",
       source |-> "/reports/2025-10.zip", kind |-> "file",
       content |-> GoodStatement],
      [path |-> "/tmp/omislisi_1/._statement.xml", source |-> "/reports/2025-10.zip",
       kind |-> "file",
       content |-> [kind |-> "xml", wellformed |-> FALSE, root |-> None,
                    entries |-> <<>>]],
      [path |-> "/tmp/omislisi_1/broken.XML", source |-> "/reports/2025-10.zip",
       kind |-> "file",
       content |-> [kind |-> "xml", wellformed |-> FALSE, root |-> None,
                    entries |-> <<>>]],
      [path |-> "/tmp/omislisi_1/other.xml", source |-> "/reports/2025-11.zip",
       kind |-> "file",
       content |-> [kind |-> "xml", wellformed |-> TRUE, root |-> "html",
                    entries |-> <<>>]],
      [path |-> "/tmp/omislisi_1/amount.xml", source |-> "/reports/2025-11.zip",
       kind |-> "file",
       content |-> [kind |-> "xml", wellformed |-> TRUE,
                    root |-> "camt.053:Document",
                    entries |-> << [RvslInd |-> None, Amt |-> "100.50",
                                    CdtDbtInd |-> "DBIT",
                                    TxDtls |-> TestCompanyDetails],
                                   [RvslInd |-> None, Amt |-> "abc",
                                    CdtDbtInd |-> "CRDT", TxDtls |-> NoTxDtls] >>]],
      [path |-> "/tmp/omislisi_1/folder.xml", source |-> "/reports/2025-11.zip",
       kind |-> "dir", content |-> NoContent],
      [path |-> "/reports/PayPal_2025.CSV", source |-> "/reports/PayPal_2025.CSV",
       kind |-> "file", content |-> GoodExport],
      [path |-> "/reports/paypal_short.csv", source |-> "/reports/paypal_short.csv",
       kind |-> "file",
       content |-> [kind |-> "csv", readable |-> TRUE,
                    rows |-> << GoodExport.rows[1],
                                [Description |-> "Payment", Date |-> "10/2/2025",
                                 Net |-> None, Name |-> None, Email |-> None] >>]],
      [path |-> "/reports/other.csv", source |-> "/reports/other.csv",
       kind |-> "file", content |-> GoodExport],
      [path |-> "/reports/paypal_gone.csv", source |-> "/reports/paypal_gone.csv",
       kind |-> "missing", content |-> NoContent] }

IdleFactory ==
    /\ file_paths = <<>>
    /\ all_transactions = NoVal

InitFactory ==
    /\ file_paths \in SeqsUpTo(FileChoices, MaxFiles)
    /\ all_transactions = NoVal

\* parse_all_files(file_paths)
ParseAllFiles ==
    /\ all_transactions = NoVal
    /\ all_transactions' = parse_all_files(file_paths)
    /\ UNCHANGED <<file_paths, notFactory>>

(***************************************************************************)
(* State machine of the counterparty grouping                              *)
(***************************************************************************)
MaxCpTx == 2

Limits == {1, 20}

IdleCounterparty ==
    /\ cp_transactions = <<>>
    /\ cp_limit = 0
    /\ cp_breakdowns = NoVal

InitCounterparty ==
    /\ cp_transactions \in SeqsUpTo(CounterpartyTx, MaxCpTx)
    /\ cp_limit \in Limits
    /\ cp_breakdowns = NoVal

\* the results that differ only in which most common variant names a row
PickName(rows, pick) ==
    [g \in DOMAIN rows |->
        [name |-> pick[g], count |-> rows[g].count, total |-> rows[g].total,
         account_numbers |-> rows[g].account_numbers]]

NameChoices(rows) ==
    { pick \in [DOMAIN rows -> UNION { rows[g].names : g \in DOMAIN rows }] :
        \A g \in DOMAIN rows : pick[g] \in rows[g].names }

ResolveNames(rows) ==
    { [rows |-> PickName(rows, pick)] : pick \in NameChoices(rows) }

\* get_counterparty_breakdowns(transactions, limit)
GetCounterpartyBreakdowns ==
    /\ cp_breakdowns = NoVal
    /\ cp_breakdowns' \in
          ResolveNames(get_counterparty_breakdowns(cp_transactions, cp_limit))
    /\ UNCHANGED <<cp_transactions, cp_limit, notCounterparty>>

(***************************************************************************)
(* State machine of the categorizer: categorize_transaction is called on    *)
(* one transaction                                                          *)
(***************************************************************************)
Descriptions ==
    {None, "", "Placilo 123", "Stripe payout", "Vra^ilo prepla^ila",
     "Prispevek za ZZ", "Bank fee"}

TransactionTypes == {"income", "expense"}

Amounts ==
    {NoAmount, NaN, Fin(2500), Fin(LargeAmount), Fin(LargeAmount + 1),
     Fin(500000), Fin(-500000)}

Counterparties ==
    {None, "Acme d.o.o.", "Fitness d.o.o.", "SS d.o.o.", "Optispin, d.o.o",
     "&tudentski servis", "Stripe", "Stripe FURS", "ZZZS", "FURS",
     "Prehodni dav^ni podra^un - ZPIZ", "BTC d.d."}

Accounts == {None, "SI56290000059820339", "SI56 1"}

CategorizerArguments ==
    [description : Descriptions, transaction_type : TransactionTypes,
     amount : Amounts, counterparty : Counterparties, account : Accounts]

IdleCategorizer ==
    /\ cat_tx = NoVal
    /\ cat_category = NoVal

InitCategorizer ==
    /\ cat_tx \in CategorizerArguments
    /\ cat_category = NoVal

\* categorize_transaction(description, transaction_type, amount, counterparty,
\* account)
CategorizeTransaction ==
    /\ cat_category = NoVal
    /\ cat_category' =
          [category |-> categorize_transaction(
                            cat_tx.description, cat_tx.transaction_type,
                            cat_tx.amount, cat_tx.counterparty, cat_tx.account)]
    /\ UNCHANGED <<cat_tx, notCategorizer>>

(***************************************************************************)
(* State machine of the pipeline: analyze runs over a reports directory    *)
(***************************************************************************)
MaxDirectory == 2

ReportsPath == "/reports"

Years == {None, "2025", "2023"}

DebitStatement ==
    [kind |-> "xml", wellformed |-> TRUE, root |-> "camt.053:Document",
     entries |-> << [RvslInd |-> None, Amt |-> "50.25", CdtDbtInd |-> "DBIT",
                     TxDtls |-> [present |-> TRUE, AddtlRmtInf |-> "Najemnina",
                                 DbtrNm |-> "Acme d.o.o.", CdtrNm |-> "Shop",
                                 DbtrIBAN |-> "SI56 1",
                                 CdtrIBAN |-> "SI56 2"],
                     BookgDt |-> "2025-11-03"] >>]

NotXml == [kind |-> "xml", wellformed |-> FALSE, root |-> None, entries |-> <<>>]

DirectoryEntries ==
    { [path |-> "/reports/2025/2025-10.zip", kind |-> "file",
       content |-> [kind |-> "zip",
                    members |-> << [path |-> "statement.xml", kind |-> "file",
                                    content |-> GoodStatement] >>]],
      [path |-> "/reports/2025/2025-11.zip", kind |-> "file",
       content |-> [kind |-> "zip",
                    members |-> << [path |-> "__MACOSX/._november.xml",
                                    kind |-> "file", content |-> NotXml],
                                   [path |-> "izpiski.xml", kind |-> "dir",
                                    content |-> NoContent],
                                   [path |-> "izpiski.xml/november.xml",
                                    kind |-> "file",
                                    content |-> DebitStatement] >>]],
      [path |-> "/reports/2025/statement.xml", kind |-> "file",
       content |-> GoodStatement],
      [path |-> "/reports/2025/paypal_2025-10.csv", kind |-> "file",
       content |-> GoodExport],
      [path |-> "/reports/Download.csv", kind |-> "file",
       content |-> GoodExport],
      [path |-> "/reports/paypal.zip", kind |-> "file",
       content |-> [kind |-> "zip",
                    members |-> << [path |-> "paypal_2025-09.csv",
                                    kind |-> "file",
                                    content |-> GoodExport] >>]],
      [path |-> "/reports/2025/broken.zip", kind |-> "file",
       content |-> NoContent],
      [path |-> "/reports/2024/paypal.csv", kind |-> "dir",
       content |-> NoContent],
      [path |-> "/reports/__MACOSX/paypal_2025-10.csv", kind |-> "file",
       content |-> GoodExport] }

\* the trees of at most MaxDirectory entries: no two entries share a path
DirectoryTrees ==
    { tree \in SeqsUpTo(DirectoryEntries, MaxDirectory) :
        \A i, j \in DOMAIN tree : tree[i].path = tree[j].path => i = j }

IdlePipeline ==
    /\ reports_tree = <<>>
    /\ year_option = None
    /\ analysis = NoVal

InitPipeline ==
    /\ reports_tree \in DirectoryTrees
    /\ year_option \in Years
    /\ analysis = NoVal

\* analyze --reports-path ReportsPath [--year year]
Analyze ==
    /\ analysis = NoVal
    /\ analysis' = analyze(reports_tree, ReportsPath, year_option)
    /\ UNCHANGED <<reports_tree, year_option, notPipeline>>

IdleReporter ==
    /\ transactions = <<>>
    /\ summary = NoVal
    /\ breakdown = NoVal

(***************************************************************************)
(* State machine of the year comparison: collect_dashboard_data hands      *)
(* get_year_comparison_data the parsed transactions, a year and the year   *)
(* before it                                                               *)
(***************************************************************************)
MaxYearTx == 2

DashboardTx ==
    { [date |-> "2025-01-15", type |-> "income",  amount |-> 100000, category |-> "sales:invoice"],
      [date |-> "2025-03-02", type |-> "expense", amount |-> -20000, category |-> "office"],
      [date |-> "2024-03-05", type |-> "income",  amount |-> 50000,  category |-> "sales:stripe"],
      [date |-> "2024-02-01", type |-> "expense", amount |-> -15000, category |-> "taxes"],
      [date |-> "2025-1-15",  type |-> "income",  amount |-> 30000,  category |-> "sales:invoice"],
      [date |-> "2025/01/15", type |-> "expense", amount |-> -1830,  category |-> "office"],
      [date |-> "15.01.2025", type |-> "expense", amount |-> -500,   category |-> "office"],
      [date |-> None,         type |-> "income",  amount |-> 700,    category |-> "refund"] }

DashboardYears == {2025, 2024}

IdleDashboard ==
    /\ yc_transactions = <<>>
    /\ yc_year = 0
    /\ year_comparison = NoVal

InitDashboard ==
    /\ yc_transactions \in SeqsUpTo(DashboardTx, MaxYearTx)
    /\ yc_year \in DashboardYears
    /\ year_comparison = NoVal

\* get_year_comparison_data(all_transactions, current_year, current_year - 1)
GetYearComparisonData ==
    /\ year_comparison = NoVal
    /\ year_comparison' = get_year_comparison_data(yc_transactions, yc_year, yc_year - 1)
    /\ UNCHANGED <<yc_transactions, yc_year, notDashboard>>

(***************************************************************************)
(* State machine of the name normalizer: normalize_counterparty_name is    *)
(* called on a raw counterparty name                                       *)
(***************************************************************************)
\* the legal suffix families, written without the trailing period
SuffixFamilies == {"d.o.o", "d.d", "s.p", "z.b.o"}

\* the ways a raw name attaches a suffix: with and without the trailing
\* period, with and without a comma before it
SuffixSpellings(family) ==
    { " " \o family, " " \o family \o ".", ", " \o family \o ".",
      ", " \o family, "," \o family \o "." }

CompanyNames == {"X", "Acme", "&port klub"}

SuffixedNames ==
    { company \o spelling :
        <<company, spelling>> \in
            CompanyNames \X UNION { SuffixSpellings(family) : family \in SuffixFamilies } }

OtherNames ==
    { "", "Janez Novak", "Acme,, d.o.o.", "Acme d..o.o", "Acme d. d.",
      "CTRP", "In-Fit d.o.o", "ss  d.o.o", "Acme  D.O.O.  Ljubljana" }

RawNames == SuffixedNames \cup OtherNames

IdleNormalizer ==
    /\ nm_name = ""
    /\ nm_normalized = NoVal

InitNormalizer ==
    /\ nm_name \in RawNames
    /\ nm_normalized = NoVal

\* normalize_counterparty_name(name)
NormalizeCounterpartyName ==
    /\ nm_normalized = NoVal
    /\ nm_normalized' = [value |-> normalize_counterparty_name(nm_name)]
    /\ UNCHANGED <<nm_name, notNormalizer>>

(***************************************************************************)
(* State machine of the report command: report runs over a reports         *)
(* directory with the options of one command line                          *)
(***************************************************************************)
CoworkingExport ==
    [kind |-> "csv", readable |-> TRUE,
     rows |-> << [Description |-> "Coworking", Date |-> "10/5/2024",
                  Net |-> "-120.00", Name |-> "BTC d.d.",
                  Email |-> "info@example.com"] >>]

StatementArchive ==
    [path |-> "/reports/2025/2025-10.zip", kind |-> "file",
     content |-> [kind |-> "zip",
                  members |-> << [path |-> "statement.xml", kind |-> "file",
                                  content |-> GoodStatement] >>]]

ReportTrees ==
    { <<>>,
      << StatementArchive,
         [path |-> "/reports/2025/paypal_2025-10.csv", kind |-> "file",
          content |-> GoodExport] >>,
      << StatementArchive,
         [path |-> "/reports/2024/paypal_2024-10.csv", kind |-> "file",
          content |-> CoworkingExport] >>,
      << [path |-> "/reports/2025/broken.zip", kind |-> "file",
          content |-> NoContent],
         [path |-> "/reports/2025/paypal_2025-10.csv", kind |-> "file",
          content |-> GoodExport] >> }

ReportOptions ==
    [month : {None, "2025-10", "2025-8", "october"},
     year : {None, "2025", "2023"},
     compare_month : {None, "2024-10", "bad"},
     compare_year : {None, "2024"},
     category : {None, "sales", "nope", "nope:tag", "offices:coworking"},
     counterparty : {None, "shop"},
     by_counterparty : BOOLEAN,
     counterparty_limit : {20}]

IdleReport ==
    /\ report_tree = <<>>
    /\ report_options = NoVal
    /\ report_output = NoVal

InitReport ==
    /\ report_tree \in ReportTrees
    /\ report_options \in ReportOptions
    /\ report_output = NoVal

\* report --reports-path ReportsPath with the options
Report ==
    /\ report_options # NoVal
    /\ report_output = NoVal
    /\ report_output' = report(report_tree, ReportsPath, report_options)
    /\ UNCHANGED <<report_tree, report_options, notReport>>

(***************************************************************************)
(* State machine of the trends and category commands: one run of one       *)
(* command over a reports directory.                                       *)
(***************************************************************************)
TrendsOptions ==
    [year : {None, "2025"},
     from_month : {None, "2025-10", "2025-8", "october"},
     to_month : {None, "2025-11", "2025-9", "november"},
     category : {None, "sales", "nope"},
     counterparty : {None, "shop"}]

CategoryOptions ==
    [category : {"sales", "bank_fees", "nope"},
     year : {None, "2025", "2023"},
     month : {None, "2025-10", "2025-8", "october"},
     type : {"all", "income"},
     min_amount : {NoAmount, Fin(5000)},
     max_amount : {NoAmount},
     limit : {50},
     sort : {"date", "amount", "description"},
     by_counterparty : BOOLEAN]

IdleCommand ==
    /\ command_name = None
    /\ command_tree = <<>>
    /\ command_options = NoVal
    /\ command_output = NoVal

InitCommand ==
    /\ command_name \in {"trends", "category"}
    /\ command_tree \in ReportTrees
    /\ command_options \in (IF command_name = "trends" THEN TrendsOptions
                            ELSE CategoryOptions)
    /\ command_output = NoVal

\* trends --reports-path ReportsPath with the options
Trends ==
    /\ command_name = "trends"
    /\ command_output = NoVal
    /\ command_output' = trends(command_tree, ReportsPath, command_options)
    /\ UNCHANGED <<command_name, command_tree, command_options, notCommand>>

\* category CATEGORY --reports-path ReportsPath with the options
Category ==
    /\ command_name = "category"
    /\ command_output = NoVal
    /\ command_output' = category(command_tree, ReportsPath, command_options)
    /\ UNCHANGED <<command_name, command_tree, command_options, notCommand>>

(***************************************************************************)
(* State machine of two render_dashboard calls that run at the same time   *)
(* on one output directory: every file-system call of a run is a step, and *)
(* the steps of the two runs interleave.                                   *)
(*                                                                         *)
(* The directory is the set of the names of its html files, static/ is     *)
(* [exists, files].  A call that finds its file or directory gone raises   *)
(* FileNotFoundError: the run stops, and what was missing is kept.         *)
(***************************************************************************)
Runs == {1, 2}

Other(r) == 3 - r

\* html_file.unlink(): [raised, files]
unlink(files, html_file) ==
    IF html_file \in files THEN [raised |-> FALSE, files |-> files \ {html_file}]
    ELSE [raised |-> TRUE, files |-> files]

\* shutil.rmtree(static_dir): [raised, static]
rmtree(static) ==
    IF static.exists THEN [raised |-> FALSE, static |-> [exists |-> FALSE, files |-> {}]]
    ELSE [raised |-> TRUE, static |-> static]

\* a static_dir.mkdir that creates nothing
mkdir_Nothing(static) == static

\* static_dir.mkdir(exist_ok=True)
mkdir(static) == [static EXCEPT !.exists = TRUE]

\* shutil.copy(source, static_dir / name): [raised, static]
copy(static, name) ==
    IF static.exists THEN [raised |-> FALSE, static |-> [static EXCEPT !.files = @ \cup {name}]]
    ELSE [raised |-> TRUE, static |-> static]

\* the step after the loop over the globbed files
AfterLoop(remaining) == IF remaining = {} THEN "exists" ELSE "unlink"

IdleConcurrent ==
    /\ cr_files = {}
    /\ cr_static = [exists |-> FALSE, files |-> {}]
    /\ cr_pc = [r \in Runs |-> "idle"]
    /\ cr_globbed = [r \in Runs |-> {}]
    /\ cr_removed = [r \in Runs |-> {}]
    /\ cr_raised = [r \in Runs |-> None]
    /\ cr_written = <<>>

InitConcurrent ==
    /\ cr_files \in SUBSET {"index.html", "orphaned.html"}
    /\ cr_static \in { [exists |-> FALSE, files |-> {}],
                       [exists |-> TRUE, files |-> {"old.js"}] }
    /\ cr_pc = [r \in Runs |-> "called"]
    /\ cr_globbed = [r \in Runs |-> {}]
    /\ cr_removed = [r \in Runs |-> {}]
    /\ cr_raised = [r \in Runs |-> None]
    /\ cr_written = <<>>

\* output_dir.mkdir(parents=True, exist_ok=True)
RunMkdir(r) ==
    /\ cr_pc[r] = "called"
    /\ cr_pc' = [cr_pc EXCEPT ![r] = "glob"]
    /\ UNCHANGED <<cr_files, cr_static, cr_globbed, cr_removed, cr_raised, cr_written,
                   notConcurrent>>

\* output_dir.glob('*.html') lists the directory when the loop starts
RunGlob(r) ==
    /\ cr_pc[r] = "glob"
    /\ cr_globbed' = [cr_globbed EXCEPT ![r] = GlobHtml(cr_files)]
    /\ cr_pc' = [cr_pc EXCEPT ![r] = AfterLoop(GlobHtml(cr_files))]
    /\ UNCHANGED <<cr_files, cr_static, cr_removed, cr_raised, cr_written, notConcurrent>>

\* html_file.unlink() for one of the listed files, in the order of the listing
RunUnlink(r, html_file) ==
    /\ cr_pc[r] = "unlink"
    /\ html_file \in cr_globbed[r]
    /\ cr_files' = unlink(cr_files, html_file).files
    /\ cr_globbed' = [cr_globbed EXCEPT ![r] = @ \ {html_file}]
    /\ IF unlink(cr_files, html_file).raised
       THEN /\ cr_pc' = [cr_pc EXCEPT ![r] = "raised"]
            /\ cr_raised' = [cr_raised EXCEPT ![r] = html_file]
            /\ UNCHANGED cr_removed
       ELSE /\ cr_pc' = [cr_pc EXCEPT ![r] = AfterLoop(cr_globbed[r] \ {html_file})]
            /\ cr_removed' = [cr_removed EXCEPT ![r] = @ \cup {html_file}]
            /\ UNCHANGED cr_raised
    /\ UNCHANGED <<cr_static, cr_written, notConcurrent>>

\* if static_dir.exists():
RunExists(r) ==
    /\ cr_pc[r] = "exists"
    /\ cr_pc' = [cr_pc EXCEPT ![r] = IF cr_static.exists THEN "rmtree" ELSE "mkdir"]
    /\ UNCHANGED <<cr_files, cr_static, cr_globbed, cr_removed, cr_raised, cr_written,
                   notConcurrent>>

\* shutil.rmtree(static_dir)
RunRmtree(r) ==
    /\ cr_pc[r] = "rmtree"
    /\ cr_static' = rmtree(cr_static).static
    /\ IF rmtree(cr_static).raised
       THEN /\ cr_pc' = [cr_pc EXCEPT ![r] = "raised"]
            /\ cr_raised' = [cr_raised EXCEPT ![r] = "static"]
            /\ UNCHANGED cr_removed
       ELSE /\ cr_pc' = [cr_pc EXCEPT ![r] = "mkdir"]
            /\ cr_removed' = [cr_removed EXCEPT ![r] = @ \cup {"static"}]
            /\ UNCHANGED cr_raised
    /\ UNCHANGED <<cr_files, cr_globbed, cr_written, notConcurrent>>

\* static_dir.mkdir(exist_ok=True)
RunMkdirStatic(r) ==
    /\ cr_pc[r] = "mkdir"
    /\ cr_static' = mkdir(cr_static)
    /\ cr_pc' = [cr_pc EXCEPT ![r] = "dashboard.css"]
    /\ UNCHANGED <<cr_files, cr_globbed, cr_removed, cr_raised, cr_written, notConcurrent>>

\* if css_source.exists(): shutil.copy(css_source, ...), then the same for
\* dashboard.js; the package may come without an asset
RunCopy(r, name, shipped) ==
    /\ cr_pc[r] = name
    /\ cr_static' = IF shipped THEN copy(cr_static, name).static ELSE cr_static
    /\ IF shipped /\ copy(cr_static, name).raised
       THEN /\ cr_pc' = [cr_pc EXCEPT ![r] = "raised"]
            /\ cr_raised' = [cr_raised EXCEPT ![r] = "static"]
       ELSE /\ cr_pc' = [cr_pc EXCEPT ![r] = IF name = "dashboard.css" THEN "dashboard.js"
                                              ELSE RenderSteps[1].step]
            /\ UNCHANGED cr_raised
    /\ UNCHANGED <<cr_files, cr_globbed, cr_removed, cr_written, notConcurrent>>

\* one render_* call of the run writes its page
RunRender(r, i) ==
    /\ cr_pc[r] = RenderSteps[i].step
    /\ cr_files' = cr_files \cup { RenderSteps[i].file }
    /\ cr_written' = (RenderSteps[i].file :> r) @@ cr_written
    /\ cr_pc' = [cr_pc EXCEPT ![r] = IF i < Len(RenderSteps) THEN RenderSteps[i + 1].step
                                     ELSE "done"]
    /\ UNCHANGED <<cr_static, cr_globbed, cr_removed, cr_raised, notConcurrent>>

(***************************************************************************)
(* Deployment tasks (fabfile.py).  A task runs local and remote commands   *)
(* one after another.  A run of a task is                                  *)
(*   [status, log, source, temp, dashboard, generation]                    *)
(* status is "running", "done", "aborted" (abort(): SystemExit) or         *)
(* "raised" (any other exception); log holds the commands executed with    *)
(* their return codes; source is deploy/<environment>/htpasswd, temp the   *)
(* temp file of the run, dashboard the local dashboard directory.          *)
(*                                                                         *)
(* The outcome of every command is an input: failing is the set of the     *)
(* commands that return non-zero.  A command without warn_only that        *)
(* returns non-zero makes the framework call abort().                      *)
(***************************************************************************)
\* at most this many commands fail in one run
MaxFailing == 2

\* at most this many tasks are run one after another
MaxTasks == 1

Absent == [exists |-> FALSE, content |-> <<>>]

File(content) == [exists |-> TRUE, content |-> content]

\* one line of a htpasswd file
Entry(username, password) == [entry |-> username, hash |-> password]

\* sops --encrypt: the whole content becomes one encrypted document
Encrypted(content) == << [sops |-> content] >>

\* sops -d accepts a file that is one encrypted document and nothing else
IsEncrypted(content) == Len(content) = 1 /\ "sops" \in DOMAIN content[1]

ReturnCode(failing, command) == IF command \in failing THEN 1 ELSE 0

Ran(run, command, return_code) ==
    [run EXCEPT !.log = Append(@, [command |-> command, return_code |-> return_code])]

\* abort(msg)
Abort(run) == [run EXCEPT !.status = "aborted"]

\* an exception that is not SystemExit
Raise(run) == [run EXCEPT !.status = "raised"]

\* sudo(command, warn_only=True): the task goes on whatever was returned
Warned(run, failing, command) ==
    IF run.status # "running" THEN run
    ELSE Ran(run, command, ReturnCode(failing, command))

\* a Command that goes on after a failure
Command_GoesOn(run, failing, command) == Warned(run, failing, command)

\* sudo(command), local(command), put(...), upload_template(...)
Command(run, failing, command) ==
    IF run.status # "running" THEN run
    ELSE IF ReturnCode(failing, command) = 0 THEN Ran(run, command, 0)
    ELSE Abort(Ran(run, command, 1))

\* the task returned
Done(run) == IF run.status = "running" THEN [run EXCEPT !.status = "done"] ELSE run

Executed(log, command) == \E i \in 1..Len(log) : log[i].command = command

Succeeded(log, command) ==
    \E i \in 1..Len(log) : log[i].command = command /\ log[i].return_code = 0

nginxconfig(run, failing) == Command(run, failing, "upload_template nginx.conf")

nginxreload(run, failing) == Command(run, failing, "service nginx reload")

\* what certbot can print when it returns non-zero
CertbotOutputs ==
    { "Please choose an account", "Account 72b6 does not exist",
      "Challenge failed for domain fin.omisli.si" }

\* what the first certbot call prints
CertbotPrinted(failing) ==
    IF "certbot --account 72b6" \in failing THEN CertbotOutputs
    ELSE {"Successfully received certificate."}

AccountSelection(result_str) ==
    \/ Contains(Lower(result_str), "choose an account")
    \/ Contains(result_str, "Please choose")
    \/ Contains(result_str, "does not exist")

\* the retry with the full account identifier
CertbotRetry(run, failing) ==
    LET retried == Warned(run, failing, "certbot --account web.omisli.si")
    IN  IF ReturnCode(failing, "certbot --account web.omisli.si") # 0
        THEN Abort(retried) ELSE retried

\* after the first certbot call: a bare raise outside an except block raises
\* RuntimeError
CertbotResult(run, failing, result_str) ==
    IF run.status # "running" THEN run
    ELSE IF ReturnCode(failing, "certbot --account 72b6") = 0 THEN run
    ELSE IF AccountSelection(result_str) THEN CertbotRetry(run, failing)
    ELSE Raise(run)

CertbotInstalled(run, failing) ==
    IF ReturnCode(failing, "which certbot") # 0
    THEN Command(run, failing, "apt-get install -y certbot") ELSE run

CertbotWebroot(run, failing) ==
    Command(Command(Command(run, failing, "mkdir -p acme-challenge"),
                    failing, "chown -R web_directory"),
            failing, "chmod -R 755 web_directory")

setup_certbot(run, failing, result_str) ==
    CertbotResult(
        Warned(CertbotWebroot(
                   CertbotInstalled(
                       Warned(Warned(run, failing, "apt-get update"),
                              failing, "which certbot"),
                       failing),
                   failing),
               failing, "certbot --account 72b6"),
        failing, result_str)

\* subprocess.run(['sops', '-d', source_file], stdout=open(target_file, 'w'),
\* check=True): the target file is created before sops runs
decrypt_settings(run, failing) ==
    LET opened == [run EXCEPT !.temp = File(<<>>)]
        code == IF IsEncrypted(run.source.content)
                THEN ReturnCode(failing, "sops -d") ELSE 1
        called == Ran(opened, "sops -d", code)
    IN  IF code = 0
        THEN [called EXCEPT !.temp = File(run.source.content[1].sops)]
        ELSE Raise(called)

\* finally: if os.path.exists(temp_file): os.remove(temp_file)
Removed(run) == [run EXCEPT !.temp = Absent]

HtpasswdUploaded(run, failing) ==
    Command(Command(Command(run, failing, "put /etc/nginx/htpasswd-fin"),
                    failing, "chmod 640 /etc/nginx/htpasswd-fin"),
            failing, "chown root:www-data /etc/nginx/htpasswd-fin")

setup_htpasswd(run, failing) ==
    IF run.status # "running" THEN run
    ELSE IF ~run.source.exists THEN Abort(run)
    ELSE Removed(HtpasswdUploaded(decrypt_settings(run, failing), failing))

SetupCertificate(run, secure, failing, result_str) ==
    IF run.status = "running" /\ secure
    THEN setup_certbot(run, failing, result_str) ELSE run

setup(run, secure, failing, result_str) ==
    Done(nginxreload(
             setup_htpasswd(
                 SetupCertificate(nginxconfig(run, failing), secure,
                                  failing, result_str),
                 failing),
             failing))

IsEntryOf(line, username) == "entry" \in DOMAIN line /\ line.entry = username

\* the htpasswd tool: the entry of the user is replaced, a new user is
\* appended; lines that are no entries stay as they are
htpasswd(content, username, password) ==
    IF \E i \in 1..Len(content) : IsEntryOf(content[i], username)
    THEN [i \in 1..Len(content) |->
            IF IsEntryOf(content[i], username) THEN Entry(username, password)
            ELSE content[i]]
    ELSE Append(content, Entry(username, password))

\* shutil.copy(source_file, temp_file) in the bare except of the decryption
Copied(run, decrypted, failing) ==
    IF ReturnCode(failing, "shutil.copy") = 0
    THEN [decrypted EXCEPT !.status = "running", !.temp = run.source]
    ELSE Raise(decrypted)

AddUserDecrypted(run, decrypted, failing) ==
    IF decrypted.status = "running"
    THEN [run |-> decrypted, is_encrypted |-> TRUE]
    ELSE [run |-> Copied(run, decrypted, failing), is_encrypted |-> FALSE]

\* the temp file the htpasswd tool works on: [run, is_encrypted]
AddUserTemp(run, failing) ==
    IF run.source.exists
    THEN AddUserDecrypted(run, decrypt_settings(run, failing), failing)
    ELSE [run |-> [run EXCEPT !.temp = File(<<>>)], is_encrypted |-> FALSE]

HtpasswdEdited(called, username, password) ==
    IF called.status = "running"
    THEN [called EXCEPT !.temp.content = htpasswd(@, username, password)]
    ELSE called

\* local("htpasswd %s %s" % (temp_file, username))
HtpasswdTool(run, username, password, failing) ==
    HtpasswdEdited(Command(run, failing, "htpasswd"), username, password)

\* subprocess.run(['sops', '--encrypt', '--in-place', temp_file], check=True)
Reencrypted(run, is_encrypted, failing) ==
    IF run.status # "running" \/ ~is_encrypted THEN run
    ELSE IF ReturnCode(failing, "sops --encrypt") = 0
    THEN [Ran(run, "sops --encrypt", 0) EXCEPT !.temp.content = Encrypted(@)]
    ELSE Raise(Ran(run, "sops --encrypt", 1))

\* shutil.move(temp_file, source_file)
Moved(run, failing) ==
    IF run.status # "running" THEN run
    ELSE IF ReturnCode(failing, "shutil.move") = 0
    THEN [run EXCEPT !.source = run.temp, !.temp = Absent]
    ELSE Raise(run)

\* except Exception as e: remove the temp file, raise; SystemExit is no
\* Exception and passes by
CleanedUp(run) == IF run.status = "raised" THEN Removed(run) ELSE run

AddUserFrom(temp, username, password, failing) ==
    Done(CleanedUp(Moved(Reencrypted(HtpasswdTool(temp.run, username, password, failing),
                                     temp.is_encrypted, failing),
                         failing)))

add_user(run, username, password, failing) ==
    AddUserFrom(AddUserTemp(run, failing), username, password, failing)

\* how a run of oa generate-dashboard can go
GenerationOutcomes ==
    {"generated", "collect raises", "render raises", "usage error"}

\* oa generate-dashboard --output-dir dashboard: [exit_code, dashboard];
\* an exception of the collection or of the rendering is echoed and the
\* command returns
generate_dashboard(dashboard, outcome) ==
    CASE outcome = "usage error" -> [exit_code |-> 2, dashboard |-> dashboard]
      [] outcome = "collect raises" -> [exit_code |-> 0, dashboard |-> dashboard]
      [] outcome = "render raises" -> [exit_code |-> 0, dashboard |-> "partial"]
      [] OTHER -> [exit_code |-> 0, dashboard |-> "generated"]

GenerationRan(run, outcome, result) ==
    IF result.exit_code = 0
    THEN [Ran(run, "oa generate-dashboard", 0)
            EXCEPT !.dashboard = result.dashboard, !.generation = outcome]
    ELSE Abort([Ran(run, "oa generate-dashboard", result.exit_code)
                  EXCEPT !.generation = outcome])

\* local("oa generate-dashboard --output-dir %s" % local_dashboard)
Generated(run, outcome) ==
    IF run.status # "running" THEN run
    ELSE GenerationRan(run, outcome, generate_dashboard(run.dashboard, outcome))

SyncPrepared(run, failing) ==
    Command(Command(Command(Command(Command(Command(run,
        failing, "mkdir -p web_directory"),
        failing, "mkdir -p acme-challenge"),
        failing, "chown -R web_directory"),
        failing, "chmod -R 755 web_directory"),
        failing, "chmod 755 .well-known"),
        failing, "chmod 755 acme-challenge")

SyncUploaded(called) ==
    IF called.status = "running" THEN [called EXCEPT !.site = called.dashboard]
    ELSE called

SyncOwned(run, failing) ==
    Command(Command(run, failing, "chown -R web_directory, synced"),
            failing, "chmod -R 755 web_directory, synced")

sync_dashboard(run, failing) ==
    IF run.status # "running" THEN run
    ELSE IF run.dashboard = "absent" THEN Abort(run)
    ELSE SyncOwned(SyncUploaded(Command(SyncPrepared(run, failing),
                                        failing, "rsync -avz --delete")),
                   failing)

deploy(run, failing, outcome) ==
    Done(nginxreload(
             sync_dashboard(Generated(Command(run, failing, "which oa"),
                                      outcome),
                            failing),
             failing))

\* the commands of each task
SetupCommands ==
    { "upload_template nginx.conf", "apt-get update", "which certbot",
      "apt-get install -y certbot", "mkdir -p acme-challenge",
      "chown -R web_directory", "chmod -R 755 web_directory",
      "certbot --account 72b6", "certbot --account web.omisli.si",
      "sops -d", "put /etc/nginx/htpasswd-fin",
      "chmod 640 /etc/nginx/htpasswd-fin",
      "chown root:www-data /etc/nginx/htpasswd-fin", "service nginx reload" }

HtpasswdCommands ==
    { "sops -d", "put /etc/nginx/htpasswd-fin",
      "chmod 640 /etc/nginx/htpasswd-fin",
      "chown root:www-data /etc/nginx/htpasswd-fin" }

AddUserCommands ==
    { "sops -d", "shutil.copy", "htpasswd", "sops --encrypt", "shutil.move" }

DeployCommands ==
    { "which oa", "mkdir -p web_directory", "mkdir -p acme-challenge",
      "chown -R web_directory", "chmod -R 755 web_directory",
      "chmod 755 .well-known", "chmod 755 acme-challenge",
      "rsync -avz --delete", "chown -R web_directory, synced",
      "chmod -R 755 web_directory, synced", "service nginx reload" }

FailingSets(commands) ==
    { failing \in SUBSET commands : Cardinality(failing) <= MaxFailing }

FabUsers == {"ana", "eva"}

\* deploy/production/htpasswd before the first task
InitialSources ==
    { Absent, File(<< Entry("ana", "old") >>),
      File(Encrypted(<< Entry("ana", "old") >>)) }

\* a task starts: a new process, hence a new temp file name
NewRun(previous) ==
    [status |-> "running", log |-> <<>>, source |-> previous.source,
     temp |-> Absent, dashboard |-> previous.dashboard,
     site |-> previous.site, generation |-> None]

IdleFabric ==
    /\ fab_secure = FALSE
    /\ fab_task = None
    /\ fab_before = Absent
    /\ fab_run = [status |-> "idle", log |-> <<>>, source |-> Absent,
                  temp |-> Absent, dashboard |-> "absent", site |-> "absent",
                  generation |-> None]
    /\ fab_count = 0

InitFabric ==
    /\ fab_secure \in BOOLEAN
    /\ fab_task = None
    /\ fab_before = Absent
    /\ fab_run \in { [status |-> "idle", log |-> <<>>, source |-> source,
                      temp |-> Absent, dashboard |-> dashboard, site |-> "old",
                      generation |-> None] :
                        source \in InitialSources, dashboard \in {"absent", "old"} }
    /\ fab_count = 0

TaskRan(name, result) ==
    /\ fab_count < MaxTasks
    /\ fab_count' = fab_count + 1
    /\ fab_task' = name
    /\ fab_before' = fab_run.source
    /\ fab_run' = result
    /\ UNCHANGED <<fab_secure, notFabric>>

\* fab web setup
Setup(failing, result_str) ==
    TaskRan("setup", setup(NewRun(fab_run), fab_secure, failing, result_str))

\* fab web setup_htpasswd
SetupHtpasswd(failing) ==
    TaskRan("setup_htpasswd", Done(setup_htpasswd(NewRun(fab_run), failing)))

\* fab web add_user:<username>
AddUser(username, password, failing) ==
    TaskRan("add_user", add_user(NewRun(fab_run), username, password, failing))

\* fab web deploy
Deploy(failing, outcome) ==
    TaskRan("deploy", deploy(NewRun(fab_run), failing, outcome))

(***************************************************************************)
(* State machine of the temp-directory registry (parsers/zip_handler.py):  *)
(* a process calls extract_zip any number of times and then exits, which   *)
(* runs _cleanup_temp_dirs.  The disk is the set of the directories that   *)
(* exist; made holds what tempfile.mkdtemp created, with the cleanup flag  *)
(* of the call.                                                            *)
(***************************************************************************)
\* at most this many calls of extract_zip before the process exits
MaxCalls == 3

\* the directories a caller passes as extract_to: its own, or one that an
\* earlier call returned
CallerDirectories(made) ==
    {"/data/extracted"} \cup { made[i].directory : i \in DOMAIN made }

\* a registration that takes the directory of the caller too
Registered_WithCallers(temp_dirs, made, extract_to, cleanup) ==
    IF cleanup
    THEN Append(temp_dirs, IF extract_to = None THEN mkdtemp(Len(made)) ELSE extract_to)
    ELSE temp_dirs

\* _temp_dirs after the first lines of extract_zip
Registered(temp_dirs, made, extract_to, cleanup) ==
    IF extract_to = None /\ cleanup
    THEN Append(temp_dirs, mkdtemp(Len(made)))
    ELSE temp_dirs

\* what mkdtemp has created after the first lines of extract_zip
Made(made, extract_to, cleanup) ==
    IF extract_to = None
    THEN Append(made, [directory |-> mkdtemp(Len(made)), cleanup |-> cleanup])
    ELSE made

\* the directory extract_zip extracts to
ExtractTo(made, extract_to) ==
    IF extract_to = None THEN mkdtemp(Len(made)) ELSE extract_to

RegistryArchives ==
    { [path |-> "/reports/2025/2025-10.zip", kind |-> "file",
       content |-> [kind |-> "zip",
                    members |-> << [path |-> "statement.xml", kind |-> "file",
                                    content |-> GoodStatement] >>]],
      [path |-> "/reports/2025/broken.zip", kind |-> "file",
       content |-> NoContent] }

IdleRegistry ==
    /\ zr_temp_dirs = <<>>
    /\ zr_made = <<>>
    /\ zr_disk = {}
    /\ zr_last = NoVal
    /\ zr_calls = 0
    /\ zr_deleted = {}
    /\ zr_pc = "idle"

InitRegistry ==
    /\ zr_temp_dirs = <<>>
    /\ zr_made = <<>>
    /\ zr_disk \in {{}, {"/data/extracted"}}
    /\ zr_last = NoVal
    /\ zr_calls = 0
    /\ zr_deleted = {}
    /\ zr_pc = "running"

\* extract_zip(zip_path, extract_to, cleanup)
ExtractZip(zip_file, extract_to, cleanup) ==
    /\ zr_pc = "running"
    /\ zr_calls < MaxCalls
    /\ zr_calls' = zr_calls + 1
    /\ zr_temp_dirs' = Registered(zr_temp_dirs, zr_made, extract_to, cleanup)
    /\ zr_made' = Made(zr_made, extract_to, cleanup)
    /\ zr_disk' = zr_disk \cup {ExtractTo(zr_made, extract_to)}
    /\ zr_last' = [extract_to |-> extract_to, cleanup |-> cleanup,
                   before |-> zr_temp_dirs,
                   result |-> extract_zip(zip_file,
                                          ExtractTo(zr_made, extract_to))]
    /\ UNCHANGED <<zr_deleted, zr_pc, notRegistry>>

\* the process exits: _cleanup_temp_dirs()
CleanupTempDirs ==
    /\ zr_pc = "running"
    /\ zr_pc' = "exited"
    /\ zr_disk' = zr_disk \ { zr_temp_dirs[i] : i \in DOMAIN zr_temp_dirs }
    /\ zr_deleted' = zr_disk \cap { zr_temp_dirs[i] : i \in DOMAIN zr_temp_dirs }
    /\ UNCHANGED <<zr_temp_dirs, zr_made, zr_last, zr_calls, notRegistry>>

(***************************************************************************)
(* Specifications: one per component; the other components stay idle.      *)
(***************************************************************************)
NextReporter == GenerateSummary \/ GenerateCategoryBreakdown

\* the reporter runs; every other component is idle
OnlyReporter ==
    InitReporter /\ IdleConfig /\ IdleRenderer /\ IdleParser
    /\ IdleFactory /\ IdleCounterparty /\ IdleCategorizer /\ IdlePipeline
    /\ IdleDashboard /\ IdleNormalizer /\ IdleReport /\ IdleCommand
    /\ IdleConcurrent /\ IdleFabric /\ IdleRegistry

SpecReporter == OnlyReporter /\ [][NextReporter]_vars

NextConfig ==
    \/ \E v \in EnvValues : SetEnv(v)
    \/ \E c \in ConfigContents : WriteConfig(c)
    \/ ImportConfig
    \/ GetReportsPath

\* the config runs; every other component is idle
OnlyConfig ==
    InitConfig /\ IdleReporter /\ IdleRenderer /\ IdleParser
    /\ IdleFactory /\ IdleCounterparty /\ IdleCategorizer /\ IdlePipeline
    /\ IdleDashboard /\ IdleNormalizer /\ IdleReport /\ IdleCommand
    /\ IdleConcurrent /\ IdleFabric /\ IdleRegistry

SpecConfig == OnlyConfig /\ [][NextConfig]_vars

NextRenderer ==
    \/ StartRender
    \/ CleanHtml
    \/ ResetStatic
    \/ \E i \in 1..Len(RenderSteps) : RenderPage(i)
    \/ \E i \in 1..Len(RenderSteps) : RenderRaises(i)
    \/ RenderReturn
    \/ \E f \in DirectRenderFiles \cup StrayFiles : CreateFile(f)

\* the renderer runs; every other component is idle
OnlyRenderer ==
    InitRenderer /\ IdleReporter /\ IdleConfig /\ IdleParser
    /\ IdleFactory /\ IdleCounterparty /\ IdleCategorizer /\ IdlePipeline
    /\ IdleDashboard /\ IdleNormalizer /\ IdleReport /\ IdleCommand
    /\ IdleConcurrent /\ IdleFabric /\ IdleRegistry

SpecRenderer == OnlyRenderer /\ [][NextRenderer]_vars

NextParser == BankParserParse \/ PayPalParserParse

\* the parser runs; every other component is idle
OnlyParser ==
    InitParser /\ IdleReporter /\ IdleConfig /\ IdleRenderer
    /\ IdleFactory /\ IdleCounterparty /\ IdleCategorizer /\ IdlePipeline
    /\ IdleDashboard /\ IdleNormalizer /\ IdleReport /\ IdleCommand
    /\ IdleConcurrent /\ IdleFabric /\ IdleRegistry

SpecParser == OnlyParser /\ [][NextParser]_vars

NextFactory == ParseAllFiles

\* the factory runs; every other component is idle
OnlyFactory ==
    InitFactory /\ IdleReporter /\ IdleConfig /\ IdleRenderer
    /\ IdleParser /\ IdleCounterparty /\ IdleCategorizer /\ IdlePipeline
    /\ IdleDashboard /\ IdleNormalizer /\ IdleReport /\ IdleCommand
    /\ IdleConcurrent /\ IdleFabric /\ IdleRegistry

SpecFactory == OnlyFactory /\ [][NextFactory]_vars

NextCounterparty == GetCounterpartyBreakdowns

\* the counterparty grouping runs; every other component is idle
OnlyCounterparty ==
    InitCounterparty /\ IdleReporter /\ IdleConfig /\ IdleRenderer
    /\ IdleParser /\ IdleFactory /\ IdleCategorizer /\ IdlePipeline
    /\ IdleDashboard /\ IdleNormalizer /\ IdleReport /\ IdleCommand
    /\ IdleConcurrent /\ IdleFabric /\ IdleRegistry

SpecCounterparty == OnlyCounterparty /\ [][NextCounterparty]_vars

NextCategorizer == CategorizeTransaction

\* the categorizer runs; every other component is idle
OnlyCategorizer ==
    InitCategorizer /\ IdleReporter /\ IdleConfig /\ IdleRenderer
    /\ IdleParser /\ IdleFactory /\ IdleCounterparty /\ IdlePipeline
    /\ IdleDashboard /\ IdleNormalizer /\ IdleReport /\ IdleCommand
    /\ IdleConcurrent /\ IdleFabric /\ IdleRegistry

SpecCategorizer == OnlyCategorizer /\ [][NextCategorizer]_vars

NextPipeline == Analyze

\* the pipeline runs; every other component is idle
OnlyPipeline ==
    InitPipeline /\ IdleReporter /\ IdleConfig /\ IdleRenderer
    /\ IdleParser /\ IdleFactory /\ IdleCounterparty /\ IdleCategorizer
    /\ IdleDashboard /\ IdleNormalizer /\ IdleReport /\ IdleCommand
    /\ IdleConcurrent /\ IdleFabric /\ IdleRegistry

SpecPipeline == OnlyPipeline /\ [][NextPipeline]_vars

NextDashboard == GetYearComparisonData

\* the year comparison runs; every other component is idle
OnlyDashboard ==
    InitDashboard /\ IdleReporter /\ IdleConfig /\ IdleRenderer
    /\ IdleParser /\ IdleFactory /\ IdleCounterparty /\ IdleCategorizer
    /\ IdlePipeline /\ IdleNormalizer /\ IdleReport /\ IdleCommand
    /\ IdleConcurrent /\ IdleFabric /\ IdleRegistry

SpecDashboard == OnlyDashboard /\ [][NextDashboard]_vars

NextNormalizer == NormalizeCounterpartyName

\* the name normalizer runs; every other component is idle
OnlyNormalizer ==
    InitNormalizer /\ IdleReporter /\ IdleConfig /\ IdleRenderer
    /\ IdleParser /\ IdleFactory /\ IdleCounterparty /\ IdleCategorizer
    /\ IdlePipeline /\ IdleDashboard /\ IdleReport /\ IdleCommand
    /\ IdleConcurrent /\ IdleFabric /\ IdleRegistry

SpecNormalizer == OnlyNormalizer /\ [][NextNormalizer]_vars

NextReport == Report

\* the report command runs; every other component is idle
OnlyReport ==
    InitReport /\ IdleReporter /\ IdleConfig /\ IdleRenderer /\ IdleParser
    /\ IdleFactory /\ IdleCounterparty /\ IdleCategorizer /\ IdlePipeline
    /\ IdleDashboard /\ IdleNormalizer /\ IdleCommand /\ IdleConcurrent
    /\ IdleFabric /\ IdleRegistry

SpecReport == OnlyReport /\ [][NextReport]_vars

NextCommand == Trends \/ Category

\* a command runs; every other component is idle
OnlyCommand ==
    InitCommand /\ IdleReporter /\ IdleConfig /\ IdleRenderer
    /\ IdleParser /\ IdleFactory /\ IdleCounterparty /\ IdleCategorizer
    /\ IdlePipeline /\ IdleDashboard /\ IdleNormalizer /\ IdleReport
    /\ IdleConcurrent /\ IdleFabric /\ IdleRegistry

SpecCommand == OnlyCommand /\ [][NextCommand]_vars

NextConcurrent ==
    \E r \in Runs :
        \/ RunMkdir(r)
        \/ RunGlob(r)
        \/ \E html_file \in cr_globbed[r] : RunUnlink(r, html_file)
        \/ RunExists(r)
        \/ RunRmtree(r)
        \/ RunMkdirStatic(r)
        \/ \E name \in StaticAssets, shipped \in BOOLEAN : RunCopy(r, name, shipped)
        \/ \E i \in 1..Len(RenderSteps) : RunRender(r, i)

\* two calls of render_dashboard run; every other component is idle
OnlyConcurrent ==
    InitConcurrent /\ IdleReporter /\ IdleConfig /\ IdleRenderer
    /\ IdleParser /\ IdleFactory /\ IdleCounterparty /\ IdleCategorizer
    /\ IdlePipeline /\ IdleDashboard /\ IdleNormalizer /\ IdleReport
    /\ IdleCommand /\ IdleFabric /\ IdleRegistry

SpecConcurrent == OnlyConcurrent /\ [][NextConcurrent]_vars

NextFabric ==
    \/ \E failing \in FailingSets(SetupCommands) :
            \E result_str \in CertbotPrinted(failing) : Setup(failing, result_str)
    \/ \E failing \in FailingSets(HtpasswdCommands) : SetupHtpasswd(failing)
    \/ \E username \in FabUsers, failing \in FailingSets(AddUserCommands) :
            AddUser(username, "new", failing)
    \/ \E failing \in FailingSets(DeployCommands), outcome \in GenerationOutcomes :
            Deploy(failing, outcome)

\* the deployment tasks run; every other component is idle
OnlyFabric ==
    InitFabric /\ IdleReporter /\ IdleConfig /\ IdleRenderer /\ IdleParser
    /\ IdleFactory /\ IdleCounterparty /\ IdleCategorizer /\ IdlePipeline
    /\ IdleDashboard /\ IdleNormalizer /\ IdleReport /\ IdleCommand
    /\ IdleConcurrent /\ IdleRegistry

SpecFabric == OnlyFabric /\ [][NextFabric]_vars

NextRegistry ==
    \/ \E zip_file \in RegistryArchives,
          extract_to \in {None} \cup CallerDirectories(zr_made),
          cleanup \in BOOLEAN :
            ExtractZip(zip_file, extract_to, cleanup)
    \/ CleanupTempDirs

\* a process extracts archives and exits; every other component is idle
OnlyRegistry ==
    InitRegistry /\ IdleReporter /\ IdleConfig /\ IdleRenderer
    /\ IdleParser /\ IdleFactory /\ IdleCounterparty /\ IdleCategorizer
    /\ IdlePipeline /\ IdleDashboard /\ IdleNormalizer /\ IdleReport
    /\ IdleCommand /\ IdleConcurrent /\ IdleFabric

SpecRegistry == OnlyRegistry /\ [][NextRegistry]_vars

(***************************************************************************)
(* C1: for any transaction list, the empty one included,                   *)
(* generate_summary returns a summary with net = total_income -            *)
(* total_expenses, total_expenses >= 0 and transaction_count =             *)
(* income_count + expense_count.                                           *)
(***************************************************************************)
C1_SummaryIdentities ==
    summary # NoVal =>
        /\ {"net", "total_income", "total_expenses", "transaction_count",
            "income_count", "expense_count"} \subseteq DOMAIN summary
        /\ summary.net = summary.total_income - summary.total_expenses
        /\ summary.total_expenses >= 0
        /\ summary.transaction_count
              = summary.income_count + summary.expense_count

(***************************************************************************)
(* C2: the totals of the base-category entries of the breakdown add up to  *)
(* the sum of all transaction amounts, also when a base category occurs    *)
(* both untagged and tagged.                                               *)
(***************************************************************************)
RECURSIVE SumTotals(_, _)
SumTotals(bd, keys) ==
    IF keys = {} THEN 0
    ELSE LET k == CHOOSE x \in keys : TRUE
         IN bd[k].total + SumTotals(bd, keys \ {k})

C2_BreakdownTotalsSumToAmounts ==
    breakdown # NoVal =>
        SumTotals(breakdown, DOMAIN breakdown) = SumAmounts(transactions)

(***************************************************************************)
(* C8: the effective reports path is the environment variable if set, else *)
(* reports_path of the config file, else ~/Documents/reports; both for the *)
(* value returned by get_reports_path() and for the constant REPORTS_PATH  *)
(* computed at import.                                                     *)
(***************************************************************************)
PriorityPath ==
    IF "OMISLISI_REPORTS_PATH" \in DOMAIN environ
          /\ environ["OMISLISI_REPORTS_PATH"] # ""
    THEN environ["OMISLISI_REPORTS_PATH"]
    ELSE IF config_file.exists /\ "reports_path" \in DOMAIN config_file.content
         THEN config_file.content["reports_path"]
         ELSE home \o "/Documents/reports"

C8_ReportsPathPriority ==
    /\ resolved # NoPath => resolved = PriorityPath
    /\ REPORTS_PATH # NoPath => REPORTS_PATH = PriorityPath

(***************************************************************************)
(* C6: after any successful render_dashboard run, whatever the output      *)
(* directory held before and however many runs came before, the *.html     *)
(* files at the top level of the output directory are exactly the five     *)
(* pages index, categories, counterparties, category_trends and            *)
(* counterparty_trends.                                                    *)
(***************************************************************************)
FivePages ==
    { "index.html", "categories.html", "counterparties.html",
      "category_trends.html", "counterparty_trends.html" }

C4_ParserSignInvariant ==
    (parsed # NoVal /\ ~parsed.raised) =>
        \A i \in 1..Len(parsed.transactions) :
            LET tx == parsed.transactions[i]
            IN /\ tx.type \in {"income", "expense"}
               /\ tx.type = "income" => FGeZero(tx.amount)
               /\ tx.type = "expense" => FLeZero(tx.amount)

(***************************************************************************)
(* C7: parse_all_files never raises; it returns, in input order, exactly   *)
(* the transactions of the files that are not macOS metadata, exist, are   *)
(* matched by a parser and parse successfully, each stamped with the name  *)
(* of its provenance file; every other file contributes nothing and does   *)
(* not affect the transactions of the other files.                         *)
(***************************************************************************)
ParsesSuccessfully(file) ==
    /\ ~HasPart(file.path, "__MACOSX")
    /\ ~StartsWith(PathName(file.path), "._")
    /\ file.kind = "file"
    /\ get_parser(file) # None
    /\ ~ParserParse(get_parser(file), file.content).raised

RECURSIVE ExpectedTransactions(_)
ExpectedTransactions(files) ==
    IF files = <<>> THEN <<>>
    ELSE (IF ParsesSuccessfully(Head(files))
          THEN LET txs == ParserParse(get_parser(Head(files)),
                                      Head(files).content).transactions
               IN [i \in 1..Len(txs) |->
                     [k \in DOMAIN txs[i] \cup {"source_file"} |->
                        IF k = "source_file" THEN PathName(Head(files).source)
                        ELSE txs[i][k]]]
          ELSE <<>>)
         \o ExpectedTransactions(Tail(files))

RECURSIVE EachFileAlone(_)
EachFileAlone(files) ==
    IF files = <<>> THEN <<>>
    ELSE parse_all_files(<<Head(files)>>).transactions
            \o EachFileAlone(Tail(files))

C7_ParseAllFilesPartialResults ==
    all_transactions # NoVal =>
        /\ ~all_transactions.raised
        /\ all_transactions.transactions = ExpectedTransactions(file_paths)
        /\ all_transactions.transactions = EachFileAlone(file_paths)

C7_Witness ==
    /\ all_transactions # NoVal
    /\ Len(file_paths) = 2
    /\ PathName(file_paths[1].path) = "amount.xml"
    /\ get_parser(file_paths[1]) = "BankParser"
    /\ BankParse(file_paths[1].content).raised
    /\ PathName(file_paths[2].path) = "PayPal_2025.CSV"
    /\ Len(all_transactions.transactions) = 1
    /\ all_transactions.transactions[1].source_file = "PayPal_2025.CSV"
    /\ all_transactions.transactions[1].amount = Fin(-1830)

(***************************************************************************)
(* C5: get_counterparty_breakdowns partitions the transactions by          *)
(* normalized counterparty name only: the rows have pairwise different     *)
(* normalized names, a row counts and totals exactly the transactions      *)
(* whose name normalizes to its own, whatever their accounts, and when     *)
(* limit is at least the number of groups there is one row per normalized  *)
(* name, the counts sum to the number of transactions and the totals to    *)
(* the sum of all amounts.                                                 *)
(***************************************************************************)
NormalizedNameOf(tx) == NormalizedName(CounterpartyOf(tx))

RECURSIVE SumField(_, _)
SumField(rows, field) ==
    IF rows = <<>> THEN 0 ELSE Head(rows)[field] + SumField(Tail(rows), field)

C5_PartitionByNormalizedName ==
    cp_breakdowns # NoVal =>
        LET txs == cp_transactions
            rows == cp_breakdowns.rows
            norm == [i \in 1..Len(txs) |-> NormalizedNameOf(txs[i])]
            rowNorm == [g \in 1..Len(rows) |-> NormalizedName(rows[g].name)]
            names == { norm[i] : i \in 1..Len(txs) }
            members(n) == { i \in 1..Len(txs) : norm[i] = n }
        IN /\ \A g, h \in 1..Len(rows) : rowNorm[g] = rowNorm[h] => g = h
           /\ \A g \in 1..Len(rows) :
                 /\ rowNorm[g] \in names
                 /\ rows[g].count = Cardinality(members(rowNorm[g]))
                 /\ rows[g].total = SumOver(txs, members(rowNorm[g]))
           /\ cp_limit >= Cardinality(names) =>
                 /\ Len(rows) = Cardinality(names)
                 /\ SumField(rows, "count") = Len(txs)
                 /\ SumField(rows, "total") = SumAmounts(txs)

C5_Witness ==
    /\ cp_breakdowns # NoVal
    /\ Len(cp_transactions) = 2
    /\ CounterpartyOf(cp_transactions[1]) = "Acme d.o.o."
    /\ CounterpartyOf(cp_transactions[2]) = "acme, d.o.o"
    /\ AccountOf(cp_transactions[1]) = "SI56 1"
    /\ AccountOf(cp_transactions[2]) = "SI56 2"
    /\ Len(cp_breakdowns.rows) = 1
    /\ cp_breakdowns.rows[1].count = 2
    /\ cp_breakdowns.rows[1].account_numbers = {"SI56 1", "SI56 2"}

(***************************************************************************)
(* C9: for an income that reaches the description stage (no account or     *)
(* counterparty rule decided it, the description is non-empty and has no   *)
(* loans, transfers, benefits or refund keyword): an amount of exactly     *)
(* 1000 yields a sales subcategory; an amount strictly greater than 1000   *)
(* yields compensations:income unless the counterparty is one of the       *)
(* always-sales entities (ss d.o.o. / studentski servis, optispin d.o.o.), *)
(* which yields a sales subcategory whatever the amount. A counterparty    *)
(* that is none of these entities is never exempted.                       *)
(***************************************************************************)
ReachesDescriptionStage(tx) ==
    /\ tx.transaction_type = "income"
    /\ AccountCategory(tx.transaction_type, tx.account) = None
    /\ CounterpartyCategory(tx.description, tx.transaction_type,
                            tx.counterparty,
                            CounterpartyNormalized(tx.counterparty)) = None
    /\ Truthy(tx.description)
    /\ FirstKeywordCategory(ItemsOf(INCOME_CATEGORIES, non_sales_categories),
                            1, Lower(tx.description)) = None

\* the name holds the entity as whole words
NamesEntity(name, entity) ==
    \E i \in 1..Len(name) :
        /\ HasAt(name, i, entity)
        /\ ~IsWordAt(name, i - 1)
        /\ ~IsWordAt(name, i + Len(entity))

AlwaysSales(counterparty) ==
    /\ Truthy(counterparty)
    /\ \E entity \in sales_only_counterparties :
          NamesEntity(CounterpartyNormalized(counterparty), entity)

SalesSubcategories == {"sales:stripe", "sales:invoice"}

C9_LargeDealThreshold ==
    (cat_category # NoVal /\ ReachesDescriptionStage(cat_tx)) =>
        /\ cat_tx.amount = Fin(LargeAmount) =>
              cat_category.category \in SalesSubcategories
        /\ AlwaysSales(cat_tx.counterparty) =>
              cat_category.category \in SalesSubcategories
        /\ ( /\ cat_tx.amount \notin {NoAmount, NaN}
             /\ cat_tx.amount.cents > LargeAmount
             /\ ~AlwaysSales(cat_tx.counterparty) ) =>
              cat_category.category = "compensations:income"

(***************************************************************************)
(* C10: whatever the description, amount, counterparty and account, the    *)
(* category that categorize_transaction returns for an income never starts *)
(* with salary and is never bank_fees, and the category it returns for an  *)
(* expense is never benefits.                                              *)
(***************************************************************************)
C10_TypeConsistency ==
    cat_category # NoVal =>
        /\ cat_tx.transaction_type = "income" =>
              /\ ~StartsWith(cat_category.category, "salary")
              /\ cat_category.category # "bank_fees"
        /\ cat_tx.transaction_type = "expense" =>
              cat_category.category # "benefits"

\* an income whose counterparty is mapped to a salary category and whose
\* account is mapped to one too, and that is categorized as a sale
C10_Witness ==
    /\ cat_category # NoVal
    /\ cat_tx.transaction_type = "income"
    /\ cat_tx.counterparty = "SS d.o.o."
    /\ cat_tx.account \in DOMAIN ACCOUNT_CATEGORIES
    /\ cat_tx.description = "Placilo 123"
    /\ cat_category.category = "sales:invoice"

(***************************************************************************)
(* C3: running analyze over a reports directory that holds a zip archive   *)
(* with a bank XML statement of one CRDT entry of 100.50 and, outside the  *)
(* archives, a PayPal CSV named *paypal*.csv with one row of Net -18.30    *)
(* gives transaction_count = 2, total_income = 100.50, total_expenses =    *)
(* 18.30 and net = 82.20.  In general the summary counts and totals        *)
(* exactly the transactions of the bank XML statements inside the zip      *)
(* archives of the directory and of the PayPal CSV files outside them      *)
(* whose name has paypal in it, macOS metadata left out; it is produced    *)
(* whenever these hold a transaction and every zip file can be read.  A    *)
(* statement outside the archives and a CSV inside one contribute nothing. *)
(***************************************************************************)
IsBankStatement(e) ==
    /\ e.kind = "file"
    /\ e.content.kind = "xml"
    /\ e.content.wellformed
    /\ e.content.root = "camt.053:Document"

IsPayPalExport(e) == e.kind = "file" /\ e.content.kind = "csv"

IsArchive(e) == e.kind = "file" /\ e.content.kind = "zip"

IsMetadata(path) ==
    HasPart(path, "__MACOSX") \/ StartsWith(PathName(path), "._")

Below(tree, directory) ==
    SelectSeq(tree, LAMBDA e : StartsWith(e.path, directory \o "/"))

\* every entry of the tree and every member of its archives
RECURSIVE WithMembers(_)
WithMembers(tree) ==
    IF tree = <<>> THEN <<>>
    ELSE <<Head(tree)>>
            \o (IF IsArchive(Head(tree)) THEN Head(tree).content.members
                ELSE <<>>)
            \o WithMembers(Tail(tree))

\* the members of the archives of the tree
RECURSIVE Members(_)
Members(tree) ==
    IF tree = <<>> THEN <<>>
    ELSE (IF IsArchive(Head(tree)) THEN Head(tree).content.members ELSE <<>>)
            \o Members(Tail(tree))

\* the transactions that the statements and exports among the entries hold
RECURSIVE Held(_)
Held(entries) ==
    IF entries = <<>> THEN <<>>
    ELSE (IF IsBankStatement(Head(entries))
          THEN BankParse(Head(entries).content).transactions
          ELSE IF IsPayPalExport(Head(entries))
          THEN PayPalParse(Head(entries).content).transactions
          ELSE <<>>)
            \o Held(Tail(entries))

ZippedStatements(tree) ==
    SelectSeq(Members(tree),
              LAMBDA m : /\ IsBankStatement(m)
                         /\ EndsWith(m.path, ".xml")
                         /\ ~IsMetadata(m.path))

LooseExports(tree) ==
    SelectSeq(tree,
              LAMBDA e : /\ IsPayPalExport(e)
                         /\ EndsWith(e.path, ".csv")
                         /\ Contains(Lower(PathName(e.path)), "paypal")
                         /\ ~IsMetadata(e.path))

EveryZipReadable(tree) ==
    \A i \in DOMAIN tree : EndsWith(tree[i].path, ".zip") => IsArchive(tree[i])

RECURSIVE SumCents(_, _)
SumCents(txs, type) ==
    IF txs = <<>> THEN 0
    ELSE (IF Head(txs).type = type THEN Head(txs).amount.cents ELSE 0)
            + SumCents(Tail(txs), type)

Summarizes(result, txs) ==
    /\ result.transaction_count = Len(txs)
    /\ result.total_income = SumCents(txs, "income")
    /\ result.total_expenses = Abs(SumCents(txs, "expense"))
    /\ result.net = SumCents(txs, "income") - Abs(SumCents(txs, "expense"))

\* the directory that analyze looks at
Analyzed == Below(reports_tree, YearPath(ReportsPath, year_option))

C11_AccountOverrides ==
    ( /\ cat_category # NoVal
      /\ cat_tx.transaction_type = "expense"
      /\ cat_tx.account \in DOMAIN ACCOUNT_CATEGORIES ) =>
        /\ cat_category.category = ACCOUNT_CATEGORIES[cat_tx.account]
        /\ cat_category.category = "salary:students"

\* an expense on the account whose counterparty is mapped to bank_fees and
\* whose description has a bank_fees keyword
C11_Witness ==
    /\ cat_category # NoVal
    /\ cat_tx.transaction_type = "expense"
    /\ cat_tx.account = "SI56290000059820339"
    /\ cat_tx.counterparty = "Stripe"
    /\ cat_tx.description = "Bank fee"
    /\ cat_category.category = "salary:students"

(***************************************************************************)
(* C12: BankParser.parse gives no transaction for an entry whose RvslInd   *)
(* is true and exactly one for every other entry that has an Amt: for a    *)
(* statement whose amounts are numbers it returns, without raising, as     *)
(* many transactions as there are non-reversal entries with an Amt, the    *)
(* entries without transaction details included.                           *)
(***************************************************************************)
IsReversal(entry) == entry.RvslInd # None /\ Lower(entry.RvslInd) = "true"

AmountsAreNumbers(entries) ==
    \A i \in DOMAIN entries :
        entries[i].Amt # None => ParseFloat(entries[i].Amt).ok

C12_OnePerNonReversalEntry ==
    ( /\ parsed # NoVal
      /\ parsed.parser = "BankParser"
      /\ statement.kind = "xml"
      /\ statement.wellformed
      /\ AmountsAreNumbers(statement.entries) ) =>
        /\ ~parsed.raised
        /\ Len(parsed.transactions) =
              Cardinality({ i \in DOMAIN statement.entries :
                              /\ ~IsReversal(statement.entries[i])
                              /\ statement.entries[i].Amt # None })

(***************************************************************************)
(* C13: PayPalParser.parse drops a row if and only if its Description is   *)
(* one of the three internal bookkeeping types, or it has no date value,   *)
(* or its Net is not parseable as a number; every other row yields exactly *)
(* one transaction whose amount is the parsed Net and whose type follows   *)
(* the sign of Net, so the output is as long as the rows not dropped.      *)
(***************************************************************************)
NoValue(field) == field = None \/ Strip(field) = ""

NetOf(row) == ParseFloat(RemoveChar(Strip(row.Net), ","))

IsDropped(row) ==
    \/ row.Description # None /\ Strip(row.Description) \in IGNORE_TYPES
    \/ NoValue(row.Date)
    \/ row.Net = None
    \/ ~NetOf(row).ok

KeptRows(rows) == SelectSeq(rows, LAMBDA row : ~IsDropped(row))

C13_DropsExactlyTheListedRows ==
    ( /\ parsed # NoVal
      /\ parsed.parser = "PayPalParser"
      /\ statement.kind = "csv"
      /\ statement.readable ) =>
        /\ ~parsed.raised
        /\ Len(parsed.transactions) = Len(KeptRows(statement.rows))
        /\ \A k \in DOMAIN parsed.transactions :
              /\ parsed.transactions[k].amount
                    = NetOf(KeptRows(statement.rows)[k]).value
              /\ parsed.transactions[k].type
                    = IF FLtZero(NetOf(KeptRows(statement.rows)[k]).value)
                      THEN "expense" ELSE "income"

(***************************************************************************)
(* C14: a path with a __MACOSX segment, or whose base name starts with     *)
(* "._", is never returned by find_xml_files or find_csv_files and never   *)
(* contributes a transaction in parse_all_files, whatever the file holds;  *)
(* _is_valid_transaction_file and _is_macos_metadata_file are exact        *)
(* complements on every path.                                              *)
(***************************************************************************)
Segments(p) ==
    { SubSeq(p, i + 1, j - 1) :
        <<i, j>> \in { ij \in (0..Len(p)) \X (1..(Len(p) + 1)) :
                        /\ ij[1] < ij[2]
                        /\ ij[1] = 0 \/ CharAt(p, ij[1]) = "/"
                        /\ ij[2] = Len(p) + 1 \/ CharAt(p, ij[2]) = "/"
                        /\ \A k \in (ij[1] + 1)..(ij[2] - 1) : CharAt(p, k) # "/" } }

IsMacPath(p) ==
    \/ "__MACOSX" \in Segments(p)
    \/ \E name \in Segments(p) :
          /\ EndsWith(p, name)
          /\ Len(name) >= 2
          /\ SubSeq(name, 1, 2) = "._"

PathsOf(files) == { files[i].path : i \in DOMAIN files }

WithoutMacPaths(files) == SelectSeq(files, LAMBDA f : ~IsMacPath(f.path))

C14_MacMetadataNeverRead ==
    all_transactions # NoVal =>
        /\ \A f \in Range(file_paths) :
              _is_valid_transaction_file(f.path) = ~_is_macos_metadata_file(f.path)
        /\ \A f \in Range(file_paths) :
              IsMacPath(f.path) =>
                  /\ f.path \notin PathsOf(find_xml_files(file_paths, "/tmp"))
                  /\ f.path \notin PathsOf(find_csv_files(file_paths, "/tmp"))
                  /\ f.path \notin PathsOf(find_xml_files(file_paths, "/reports"))
                  /\ f.path \notin PathsOf(find_csv_files(file_paths, "/reports"))
        /\ all_transactions = parse_all_files(WithoutMacPaths(file_paths))

C14_Witness ==
    /\ all_transactions # NoVal
    /\ Len(file_paths) = 2
    /\ file_paths[1].path = "/tmp/omislisi_1/__MACOSX/statement.xml"
    /\ get_parser(file_paths[1]) = "BankParser"
    /\ ~BankParse(file_paths[1].content).raised
    /\ Len(BankParse(file_paths[1].content).transactions) = 1
    /\ file_paths[2].path = "/tmp/omislisi_1/statement.xml"
    /\ PathsOf(find_xml_files(file_paths, "/tmp")) = {"/tmp/omislisi_1/statement.xml"}
    /\ Len(all_transactions.transactions) = 1

(***************************************************************************)
(* C15: for any transaction list and year, the keys of monthly_comparison  *)
(* returned by get_year_comparison_data are exactly the calendar months    *)
(* that have at least one transaction in the current year; a month with    *)
(* transactions in the previous year only never appears, and the current   *)
(* summary of every entry is present (not None).                           *)
(***************************************************************************)
InYear(tx, year) == DateStartsWith(tx, ToString(year) \o "-")

\* the month of a date YYYY-M... or YYYY-MM..., as two digits
CalendarMonth(date) ==
    IF Len(Split(date, "-")) >= 2 /\ ParseInt(Split(date, "-")[2]).ok
    THEN Format02d(ParseInt(Split(date, "-")[2]).value)
    ELSE "??"

MonthsOfYear(txs, year) ==
    { CalendarMonth(txs[i].date) : i \in { j \in DOMAIN txs : InYear(txs[j], year) } }

C15_MonthsOfTheCurrentYear ==
    year_comparison # NoVal =>
        /\ ~year_comparison.raised
        /\ DOMAIN year_comparison.monthly_comparison
              = MonthsOfYear(yc_transactions, yc_year)
        /\ \A m \in MonthsOfYear(yc_transactions, yc_year - 1)
                        \ MonthsOfYear(yc_transactions, yc_year) :
              m \notin DOMAIN year_comparison.monthly_comparison
        /\ \A m \in DOMAIN year_comparison.monthly_comparison :
              year_comparison.monthly_comparison[m].current.present

(***************************************************************************)
(* C16: normalize_counterparty_name is idempotent: normalizing a           *)
(* normalized name gives the same name, for every input string.            *)
(***************************************************************************)
C16_NormalizeIsIdempotent ==
    nm_normalized # NoVal =>
        normalize_counterparty_name(nm_normalized.value) = nm_normalized.value

(***************************************************************************)
(* C17: normalize_counterparty_name forces each legal suffix family to one *)
(* canonical spelling with trailing period: for every name and family, the *)
(* spellings with and without the trailing period and with and without a   *)
(* preceding comma normalize to the same string, which ends in the         *)
(* canonical suffix.                                                       *)
(***************************************************************************)
C17_OneSpellingPerSuffix ==
    nm_normalized # NoVal =>
        \A company \in CompanyNames : \A family \in SuffixFamilies :
            nm_name \in { company \o spelling : spelling \in SuffixSpellings(family) } =>
                /\ EndsWith(nm_normalized.value, " " \o family \o ".")
                /\ \A spelling \in SuffixSpellings(family) :
                      normalize_counterparty_name(company \o spelling)
                          = nm_normalized.value

(***************************************************************************)
(* C18: aggregation does not depend on the order of the transactions: for  *)
(* any transaction list and any permutation of it, generate_summary gives  *)
(* equal summaries and generate_category_breakdown equal breakdowns (same  *)
(* base entries, totals, counts and tag sub-entries).                      *)
(***************************************************************************)
Orders(n) == { f \in [1..n -> 1..n] : \A i, j \in 1..n : f[i] = f[j] => i = j }

Reordered(txs, f) == [i \in 1..Len(txs) |-> txs[f[i]]]

C18_OrderIndependent ==
    /\ summary # NoVal =>
          \A f \in Orders(Len(transactions)) :
              generate_summary(Reordered(transactions, f)) = summary
    /\ breakdown # NoVal =>
          \A f \in Orders(Len(transactions)) :
              generate_category_breakdown(Reordered(transactions, f)) = breakdown

(***************************************************************************)
(* C19: a single malformed input file never aborts a batch: when one file  *)
(* under the reports root cannot be processed (in particular a zip archive *)
(* that cannot be extracted), file discovery followed by parse_all_files   *)
(* still returns the transactions of all other archives and CSV files      *)
(* instead of raising.                                                     *)
(***************************************************************************)
\* parse_all_files(get_all_transaction_files(reports_path))
ParsedBatch(found) ==
    IF found.raised THEN [raised |-> TRUE, transactions |-> <<>>]
    ELSE parse_all_files(found.files)

Batch(tree, reports_path) ==
    ParsedBatch(get_all_transaction_files(tree, reports_path))

\* the tree without the zip files that cannot be extracted
Extractable(tree) ==
    SelectSeq(tree, LAMBDA e : EndsWith(e.path, ".zip") => IsArchive(e))

C19_BatchSurvivesBrokenFile ==
    analysis # NoVal =>
        /\ ~Batch(reports_tree, YearPath(ReportsPath, year_option)).raised
        /\ Batch(reports_tree, YearPath(ReportsPath, year_option)).transactions
              = Batch(Extractable(reports_tree),
                      YearPath(ReportsPath, year_option)).transactions
        /\ analysis.outcome # "done" =>
              Batch(Extractable(reports_tree),
                    YearPath(ReportsPath, year_option)).transactions = <<>>

(***************************************************************************)
(* C20: the report command validates --category against the known taxonomy *)
(* before running the report: for every category argument whose base name  *)
(* is not in get_all_categories(), and for any data under the reports      *)
(* path, the command prints the unknown-category error together with the   *)
(* list of valid categories and produces no report output.                 *)
(***************************************************************************)
\* report --category X, with or without --counterparty and --by-counterparty
\* and with no option that selects or compares a period
CategoryOnly(o) ==
    /\ o.month = None /\ o.year = None
    /\ o.compare_month = None /\ o.compare_year = None
    /\ Truthy(o.category)

\* some line of the output has the text
Prints(out, text) == \E i \in DOMAIN out.echoed : out.echoed[i].text = text

\* the list of valid categories is among the lines
ListsCategories(out) ==
    \E i \in DOMAIN out.echoed :
        /\ "categories" \in DOMAIN out.echoed[i]
        /\ out.echoed[i].categories = get_all_categories

\* a report or a comparison is among the lines
HasReport(out) == \E i \in DOMAIN out.echoed : "summary" \in DOMAIN out.echoed[i]

C20_UnknownCategoryRejected ==
    (/\ report_output # NoVal
     /\ CategoryOnly(report_options)
     /\ ~IsValidCategory(Lower(report_options.category)))
        => /\ ~report_output.raised
           /\ Prints(report_output,
                     "Error: Unknown category '" \o report_options.category \o "'")
           /\ ListsCategories(report_output)
           /\ ~HasReport(report_output)

(***************************************************************************)
(* C21: for the report, trends and category commands and every combination *)
(* of their period options (--year, --month, --from-month, --to-month,     *)
(* --compare-month), a month value that is not in YYYY-MM format is        *)
(* reported as a user-facing error message followed by an early return; it *)
(* never causes an unhandled exception and the command never goes on to    *)
(* load or analyse data with the invalid value.  Stated here for trends    *)
(* and category, with a category argument that the taxonomy knows; a month *)
(* value counts as invalid when strptime('%Y-%m') does not read it.        *)
(***************************************************************************)
InvalidMonth(m) == Truthy(m) /\ ~IsYearMonth(m)

\* the month values among the options of the command
MonthValues(name, o) ==
    IF name = "trends" THEN {o.from_month, o.to_month} ELSE {o.month}

\* the command wrote one error message and returned
OnlyAnError(out) ==
    /\ ~out.raised
    /\ Len(out.echoed) = 1
    /\ StartsWith(out.echoed[1].text, "Error: ")

C21_InvalidMonthRejected ==
    (/\ command_output # NoVal
     /\ \E m \in MonthValues(command_name, command_options) : InvalidMonth(m)
     /\ Truthy(command_options.category)
            => IsValidCategory(Lower(command_options.category)))
        => OnlyAnError(command_output)

(***************************************************************************)
(* C22: when no account rule applies and the normalized counterparty       *)
(* contains "stripe", categorize_transaction returns sales:stripe for an   *)
(* income transaction and bank_fees for an expense transaction, regardless *)
(* of which COUNTERPARTY_CATEGORIES entries the counterparty also matches  *)
(* and of the order of the table.                                          *)
(***************************************************************************)
\* the counterparty of the call is one of Stripe and no account rule applies
StripeCall(tx) ==
    /\ AccountCategory(tx.transaction_type, tx.account) = None
    /\ Truthy(tx.counterparty)
    /\ Contains(CounterpartyNormalized(tx.counterparty), "stripe")

C22_StripeForced ==
    (cat_category # NoVal /\ StripeCall(cat_tx)) =>
        cat_category.category =
            IF cat_tx.transaction_type = "income" THEN "sales:stripe" ELSE "bank_fees"

(***************************************************************************)
(* C23: in the counterparty check of categorize_transaction an exact match *)
(* is tried first: whenever the normalized counterparty equals a key K of  *)
(* COUNTERPARTY_CATEGORIES exactly (and K's category is not removed by a   *)
(* type-consistency filter), the result is derived from K's category, even *)
(* if another key that appears earlier in the table is a substring or      *)
(* prefix of the counterparty.                                             *)
(***************************************************************************)
\* the positions of the keys that are the normalized counterparty itself
ExactKeys(tx) ==
    { k \in DOMAIN COUNTERPARTY_CATEGORIES :
        COUNTERPARTY_CATEGORIES[k][1] = CounterpartyNormalized(tx.counterparty) }

\* what the loop derives from the category of the key at position k
DerivedFrom(tx, k) ==
    MatchedCategory(tx.description, tx.transaction_type,
                    CounterpartyNormalized(tx.counterparty),
                    COUNTERPARTY_CATEGORIES[k][2])

C23_ExactMatchFirst ==
    (/\ cat_category # NoVal
     /\ AccountCategory(cat_tx.transaction_type, cat_tx.account) = None
     /\ Truthy(cat_tx.counterparty))
        => \A k \in ExactKeys(cat_tx) :
              DerivedFrom(cat_tx, k) # Continue
                  => cat_category.category = DerivedFrom(cat_tx, k)

(***************************************************************************)
(* C24: two render_dashboard runs executing concurrently against the same  *)
(* output directory can interleave destructively: there is an interleaving *)
(* of their steps (delete *.html, remove and recreate static/, copy        *)
(* assets, write pages) in which one run raises because the other removed  *)
(* a file or directory it was about to use, or after which the directory   *)
(* holds pages written by different runs.  The formula is the first half:  *)
(* a run raises only on something that the other run has removed; the      *)
(* witness is such a raise.                                                *)
(***************************************************************************)
C24_RaisesOnWhatTheOtherRemoved ==
    \A r \in Runs :
        cr_raised[r] # None => cr_raised[r] \in cr_removed[Other(r)]

\* one run has raised on a listed html file that the other run unlinked, and
\* the other run has gone on to write its pages
C24_Witness ==
    \E r \in Runs :
        /\ cr_pc[r] = "raised"
        /\ cr_raised[r] \in cr_removed[Other(r)]
        /\ cr_raised[r] # "static"
        /\ cr_pc[Other(r)] = "done"

(***************************************************************************)
(* C25: the composite setup task executes its steps in the order: render   *)
(* the reverse-proxy configuration, then (only if the environment is       *)
(* TLS-enabled) issue the certificate, then provision basic-auth, then     *)
(* reload the service; a step runs only if every earlier step succeeded,   *)
(* and in a TLS-enabled environment basic-auth provisioning and the reload *)
(* happen only after a certbot invocation returned success (directly or on *)
(* the account-selection retry).                                           *)
(***************************************************************************)
\* the step of setup a command belongs to
SetupStep(command) ==
    CASE command = "upload_template nginx.conf" -> 1
      [] command \in HtpasswdCommands -> 3
      [] command = "service nginx reload" -> 4
      [] OTHER -> 2

CertbotSucceeded(log) ==
    \/ Succeeded(log, "certbot --account 72b6")
    \/ Succeeded(log, "certbot --account web.omisli.si")

\* every step before the given one succeeded
EarlierSucceeded(log, secure, step) ==
    /\ step > 1 => Succeeded(log, "upload_template nginx.conf")
    /\ step > 2 /\ secure =>
           /\ CertbotSucceeded(log)
           /\ Succeeded(log, "chmod -R 755 web_directory")
    /\ step > 3 => \A command \in HtpasswdCommands : Succeeded(log, command)

C25_SetupInOrder ==
    fab_task = "setup" =>
        LET log == fab_run.log
        IN  /\ \A i, j \in 1..Len(log) :
                   i < j => SetupStep(log[i].command) <= SetupStep(log[j].command)
            /\ ~fab_secure => \A i \in 1..Len(log) : SetupStep(log[i].command) # 2
            /\ \A i \in 1..Len(log) :
                   EarlierSucceeded(log, fab_secure, SetupStep(log[i].command))
            /\ fab_run.status = "done" <=> Succeeded(log, "service nginx reload")

\* a setup in a TLS-enabled environment whose first certbot call asked for
\* the account and whose retry succeeded: basic-auth was provisioned and the
\* service reloaded
C25_Witness ==
    /\ fab_task = "setup"
    /\ fab_secure
    /\ fab_run.status = "done"
    /\ ~Succeeded(fab_run.log, "certbot --account 72b6")
    /\ Succeeded(fab_run.log, "certbot --account web.omisli.si")
    /\ Succeeded(fab_run.log, "put /etc/nginx/htpasswd-fin")
    /\ Succeeded(fab_run.log, "service nginx reload")

(***************************************************************************)
(* C26: the decrypted htpasswd temp file never outlives the task that      *)
(* created it: when setup_htpasswd or add_user ends, whether by success,   *)
(* by a raised exception, or by an abort of any step (decryption, upload,  *)
(* htpasswd tool invocation, re-encryption, final move), the local temp    *)
(* file no longer exists.                                                  *)
(***************************************************************************)
C26_TempFileRemoved ==
    fab_task \in {"setup_htpasswd", "add_user"} => ~fab_run.temp.exists

\* the half of C26 about setup_htpasswd, whose removal sits in a finally
C26_SetupHtpasswdRemoves ==
    fab_task \in {"setup_htpasswd", "setup"} => ~fab_run.temp.exists

\* add_user leaves the temp file only when the run ended by abort()
C26_LeftOnlyByAbort ==
    fab_task = "add_user" /\ fab_run.temp.exists =>
        /\ fab_run.status = "aborted"
        /\ ~Succeeded(fab_run.log, "htpasswd")
        /\ Executed(fab_run.log, "htpasswd")

(***************************************************************************)
(* C27: add_user preserves the encryption of the credential file: if the   *)
(* htpasswd source file is encrypted before add_user runs, then whenever   *)
(* add_user replaces the source file the new content is the re-encrypted   *)
(* result (never plaintext and never ciphertext with a plaintext entry     *)
(* appended), and if any step fails the source file is left unchanged.     *)
(***************************************************************************)
StepFailed(log) == \E i \in 1..Len(log) : log[i].return_code # 0

C27_EncryptionPreserved ==
    fab_task = "add_user" /\ fab_before.exists /\ IsEncrypted(fab_before.content) =>
        /\ fab_run.source # fab_before => IsEncrypted(fab_run.source.content)
        /\ StepFailed(fab_run.log) \/ fab_run.status # "done" =>
               fab_run.source = fab_before

\* with a decryption that succeeds the claim holds
C27_PreservedWhenDecrypted ==
    /\ fab_task = "add_user"
    /\ fab_before.exists
    /\ IsEncrypted(fab_before.content)
    /\ Succeeded(fab_run.log, "sops -d")
    => /\ fab_run.source # fab_before => IsEncrypted(fab_run.source.content)
       /\ StepFailed(fab_run.log) \/ fab_run.status # "done" =>
              fab_run.source = fab_before

(***************************************************************************)
(* C29: the composite deploy task syncs the dashboard to the remote web    *)
(* root and reloads the reverse proxy only after the dashboard was         *)
(* regenerated successfully in the same run: if dashboard generation fails *)
(* (data collection or rendering raises inside generate-dashboard),        *)
(* neither the sync nor the reload is performed.                           *)
(***************************************************************************)
GenerationFailed(generation) == generation \in GenerationOutcomes \ {"generated"}

Synced(log) ==
    \/ Executed(log, "rsync -avz --delete")
    \/ Executed(log, "service nginx reload")

C29_SyncOnlyAfterGeneration ==
    fab_task = "deploy" =>
        /\ Synced(fab_run.log) => fab_run.generation = "generated"
        /\ GenerationFailed(fab_run.generation) =>
               /\ ~Executed(fab_run.log, "rsync -avz --delete")
               /\ ~Executed(fab_run.log, "service nginx reload")
               /\ fab_run.site = "old"

\* the sync and the reload run only after the generate-dashboard command
\* returned 0
C29_SyncOnlyAfterExitZero ==
    fab_task = "deploy" /\ Synced(fab_run.log) =>
        Succeeded(fab_run.log, "oa generate-dashboard")

(***************************************************************************)
(* C28: every category that categorize_transaction can return (from        *)
(* ACCOUNT_CATEGORIES, COUNTERPARTY_CATEGORIES, the keyword tables and the *)
(* subcategory resolvers) is accepted by the CLI category validation: its  *)
(* base name (the part before `:`) is a member of get_all_categories().    *)
(***************************************************************************)
C28_ReturnedCategoryAccepted ==
    cat_category # NoVal =>
        /\ Head(Split(cat_category.category, ":")) \in get_all_categories
        /\ IsValidCategory(Lower(cat_category.category))

\* the one base name that is returned and not accepted
C28_AcceptedUnlessOffices ==
    cat_category # NoVal =>
        \/ IsValidCategory(Lower(cat_category.category))
        \/ cat_category.category = "offices:coworking"

(***************************************************************************)
(* C30: after any sequence of extract_zip calls, the process-wide          *)
(* temp-directory registry contains exactly the directories that           *)
(* extract_zip itself created (extract_to omitted) with cleanup enabled,   *)
(* each once; a caller-supplied extract_to directory is never registered,  *)
(* so the exit-time cleanup never deletes a directory it did not create.   *)
(***************************************************************************)
MadeWithCleanup(made) ==
    { made[i].directory : i \in { k \in DOMAIN made : made[k].cleanup } }

MadeDirectories(made) == { made[i].directory : i \in DOMAIN made }

C30_RegistryExact ==
    /\ \A i, j \in DOMAIN zr_temp_dirs :
           zr_temp_dirs[i] = zr_temp_dirs[j] => i = j
    /\ { zr_temp_dirs[i] : i \in DOMAIN zr_temp_dirs } = MadeWithCleanup(zr_made)
    /\ zr_last # NoVal =>
           (zr_last.extract_to # None => zr_temp_dirs = zr_last.before)
    /\ zr_deleted \subseteq MadeWithCleanup(zr_made)
    /\ zr_pc = "exited" =>
           zr_disk \cap MadeDirectories(zr_made)
               = MadeDirectories(zr_made) \ MadeWithCleanup(zr_made)

\* the process has exited after three calls: one that registered its temp
\* directory, one without cleanup, and one to which the caller handed the
\* unregistered temp directory with cleanup set; the cleanup removed the
\* first directory only
C30_Witness ==
    /\ zr_pc = "exited"
    /\ Len(zr_made) = 2
    /\ Len(zr_temp_dirs) = 1
    /\ zr_last # NoVal
    /\ zr_last.cleanup
    /\ zr_last.extract_to = zr_made[2].directory
    /\ zr_deleted = {zr_made[1].directory}
    /\ zr_made[2].directory \in zr_disk

=============================================================================
